---------------------------- MODULE Spec2Model ----------------------------
(***************************************************************************)
(* A model of next-token-prediction: the n-gram trie, the frequency table  *)
(* and the prediction engine, in its two generations:                      *)
(*   - components/Decoder   (closure-held model, bigram counts), and       *)
(*   - models/Transformer   (module-level Context, 144-slot embeddings).   *)
(*                                                                         *)
(* Text is modelled character by character: a text is a sequence of        *)
(* one-character strings, so that String.split, String.replace and the     *)
(* regular expressions of the source are computed, not assumed.            *)
(***************************************************************************)
EXTENDS Integers, Sequences, FiniteSets, TLC

(***************************************************************************)
(* Characters and character classes                                        *)
(***************************************************************************)

LowerLetters ==
  << "a","b","c","d","e","f","g","h","i","j","k","l","m",
     "n","o","p","q","r","s","t","u","v","w","x","y","z" >>

UpperLetters ==
  << "A","B","C","D","E","F","G","H","I","J","K","L","M",
     "N","O","P","Q","R","S","T","U","V","W","X","Y","Z" >>

Digits == << "0","1","2","3","4","5","6","7","8","9" >>

Range(s) == { s[i] : i \in DOMAIN s }

LowerSet == Range(LowerLetters)
UpperSet == Range(UpperLetters)
DigitSet == Range(Digits)

\* [a-zA-Z0-9]
AlphaNumeric == LowerSet \cup UpperSet \cup DigitSet

\* \s of a JavaScript regular expression and the characters String.trim strips
Whitespace == { " ", "\n", "\r", "\t" }

\* Characters outside ASCII are written by name: each name is one character.
COPYRIGHT == "(c)"
ENDASH    == "(--)"
LDQUO     == "(lq)"
RDQUO     == "(rq)"
BACKTICK  == "(grave)"
ELLIPSIS  == "(...)"
NUL       == "(0)"

\* MATCH_PUNCTUATION, a character class: . , / # ! $ % ? and the two curly
\* double quotes, ^ & * ; : { } = _ grave accent ~ ( )
MATCH_PUNCTUATION ==
  { ".", ",", "/", "#", "!", "$", "%", "?", LDQUO, RDQUO, "^", "&", "*",
    ";", ":", "{", "}", "=", "_", BACKTICK, "~", "(", ")" }

\* The [.?!] of /([.?!])\s*(?=[A-Z])/g
Terminators == { ".", "?", "!" }

\* The class of tokenize, /[\p{P}...]/gu, restricted to the characters of the
\* model: Unicode punctuation, and the symbols the class lists one by one
\* ($ + < = > ^ grave accent ( \ newline ) | ~).
TokenizePunctuation ==
  { ".", ",", "/", "#", "!", "%", "?", LDQUO, RDQUO, "&", "*", ";", ":", "{",
    "}", "_", "(", ")", "-", "'", "\"", "[", "]", "@", "\\", ENDASH, ELLIPSIS,
    "$", "+", "<", "=", ">", "^", BACKTICK, "\n", "|", "~" }

\* String.prototype.toUpperCase on one character
toUpperCase(c) ==
  IF c \in LowerSet
    THEN UpperLetters[CHOOSE i \in DOMAIN LowerLetters : LowerLetters[i] = c]
    ELSE c

\* String.prototype.toLowerCase on one character
toLowerCase(c) ==
  IF c \in UpperSet
    THEN LowerLetters[CHOOSE i \in DOMAIN UpperLetters : UpperLetters[i] = c]
    ELSE c

(***************************************************************************)
(* String operations                                                       *)
(***************************************************************************)

\* s.replace(s.charAt(0), s.charAt(0).toUpperCase()): the first occurrence
\* of the first character is the first character
Capitalize(s) ==
  IF s = << >> THEN s ELSE << toUpperCase(s[1]) >> \o Tail(s)

RECURSIVE SplitFrom(_, _, _, _)
SplitFrom(s, sep, i, cur) ==
  IF i > Len(s) THEN << cur >>
  ELSE IF s[i] = sep THEN << cur >> \o SplitFrom(s, sep, i + 1, << >>)
  ELSE SplitFrom(s, sep, i + 1, Append(cur, s[i]))

\* String.prototype.split on a one-character separator
split(s, sep) == SplitFrom(s, sep, 1, << >>)

RECURSIVE JoinFrom(_, _, _)
JoinFrom(parts, sep, i) ==
  IF i > Len(parts) THEN << >>
  ELSE IF i = Len(parts) THEN parts[i]
  ELSE parts[i] \o << sep >> \o JoinFrom(parts, sep, i + 1)

\* Array.prototype.join on a one-character separator
join(parts, sep) == JoinFrom(parts, sep, 1)

RECURSIVE SkipWhitespace(_, _)
\* the first index at or after i that holds no whitespace (Len(s) + 1 if none)
SkipWhitespace(s, i) ==
  IF i > Len(s) \/ s[i] \notin Whitespace THEN i ELSE SkipWhitespace(s, i + 1)

RECURSIVE SkipWhitespaceBack(_, _)
SkipWhitespaceBack(s, i) ==
  IF i < 1 \/ s[i] \notin Whitespace THEN i ELSE SkipWhitespaceBack(s, i - 1)

\* String.prototype.trim
trim(s) ==
  LET a == SkipWhitespace(s, 1)
      b == SkipWhitespaceBack(s, Len(s))
  IN  IF a > b THEN << >> ELSE SubSeq(s, a, b)

RECURSIVE MapChars(_, _, _)
\* s.replace(/[class]/g, by): every character of the class replaced by the text by
MapChars(s, class, by) ==
  IF s = << >> THEN << >>
  ELSE (IF Head(s) \in class THEN by ELSE << Head(s) >>)
         \o MapChars(Tail(s), class, by)

\* s.match(/[class]/): some character of s is in the class
HasCharIn(s, class) == \E i \in DOMAIN s : s[i] \in class

(***************************************************************************)
(* JavaScript values the results carry                                     *)
(***************************************************************************)

\* null and undefined, kept apart from every text (a text holds characters)
Null      == << "null" >>
Undefined == << "undefined" >>

\* ToBoolean of a string, null or undefined
Truthy(v) == v # << >> /\ v # Null /\ v # Undefined

\* a result without an error field
NoError == ""

MISSING_NGRAM_ERROR     == "Failed to look up n-gram."
MISSING_EMBEDDING_ERROR == "Failed to look up embedding."

(***************************************************************************)
(* Object keys                                                             *)
(***************************************************************************)

\* An array index in the sense of OrdinaryOwnPropertyKeys: a canonical
\* numeric string ("0", or digits without a leading zero).
IsArrayIndex(key) ==
  /\ key # << >>
  /\ \A i \in DOMAIN key : key[i] \in DigitSet
  /\ (Len(key) = 1 \/ key[1] # "0")

DigitValue(c) == (CHOOSE i \in DOMAIN Digits : Digits[i] = c) - 1

RECURSIVE NumericValue(_)
NumericValue(key) ==
  IF key = << >> THEN 0
  ELSE 10 * NumericValue(SubSeq(key, 1, Len(key) - 1)) + DigitValue(key[Len(key)])

\* x put into the sorted list t in front of the first element that compares
\* greater than it, so behind its equals: the step of a stable sort
InsertSorted(t, x, Greater(_, _)) ==
  LET above == { i \in DOMAIN t : Greater(t[i], x) }
      p     == IF above = {} THEN Len(t) + 1
               ELSE CHOOSE i \in above : \A j \in above : i <= j
  IN  SubSeq(t, 1, p - 1) \o << x >> \o SubSeq(t, p, Len(t))

\* Array.prototype.sort (stable since ES2019) under a consistent comparator:
\* Greater(a, b) stands for compare(a, b) > 0
StableSort(s, Greater(_, _)) ==
  LET sorted[k \in 0..Len(s)] ==
        IF k = 0 THEN << >> ELSE InsertSorted(sorted[k - 1], s[k], Greater)
  IN  sorted[Len(s)]

\* The order in which Object.keys and for-in list the keys of an object whose
\* keys were created in the order of insertionOrder: array indices first, in
\* ascending numeric order, then the other keys in creation order.
OwnKeys(insertionOrder) ==
  LET IsIndex(k)    == IsArrayIndex(k)
      IsNoIndex(k)  == ~IsArrayIndex(k)
      Above(a, b)   == NumericValue(a) > NumericValue(b)
  IN  StableSort(SelectSeq(insertionOrder, IsIndex), Above)
        \o SelectSeq(insertionOrder, IsNoIndex)

\* Array.prototype.slice(-n), n > 0
SliceLast(s, n) ==
  IF Len(s) <= n THEN s ELSE SubSeq(s, Len(s) - n + 1, Len(s))

(***************************************************************************)
(* The trie: nested objects { token: { token: ... } }                      *)
(*                                                                         *)
(* A trie is the list of its paths from the root (each a non-empty list of *)
(* tokens) in the order in which the nodes were created; it is closed      *)
(* under prefixes and holds no path twice.                                 *)
(***************************************************************************)

EmptyTrie == << >>

HasPath(trie, path) == \E i \in DOMAIN trie : trie[i] = path

\* the keys of the node at path, in creation order (the root: path = << >>)
ChildrenOf(trie, path) ==
  LET IsChild(p) == Len(p) = Len(path) + 1 /\ SubSeq(p, 1, Len(path)) = path
      Last(p)    == p[Len(p)]
      kids       == SelectSeq(trie, IsChild)
  IN  [i \in DOMAIN kids |-> Last(kids[i])]

\* Object.keys of the node at path
Keys(trie, path) == OwnKeys(ChildrenOf(trie, path))

\* words.reduce((a, b) => { cursor = (cursor or a)[b] = {}; return a }, {}):
\* the linear chain words[1] -> words[2] -> ...
ngramOf(words) == [k \in 1..Len(words) |-> SubSeq(words, 1, k)]

\* Object.assign(dest, source): a key of source replaces the key of dest
\* and all below it (a faulty variant of mergeOne)
mergeOne_shallow(dest, source) ==
  IF source = << >> THEN dest
  ELSE SelectSeq(dest, LAMBDA p : p[1] # Head(source)[1]) \o source

RECURSIVE mergeOne(_, _)
\* lodash merge(dest, source): the nodes of source that dest lacks are
\* created in dest, in the order source lists them
mergeOne(dest, source) ==
  IF source = << >> THEN dest
  ELSE mergeOne(IF HasPath(dest, Head(source)) THEN dest
                ELSE Append(dest, Head(source)),
                Tail(source))

RECURSIVE merge(_, _)
\* lodash merge(dest, ...sources)
merge(dest, sources) ==
  IF sources = << >> THEN dest
  ELSE merge(mergeOne(dest, Head(sources)), Tail(sources))

RECURSIVE chunkArray(_, _)
\* function* chunkArray: slices of chunkSize elements, the last one shorter
chunkArray(array, chunkSize) ==
  IF array = << >> THEN << >>
  ELSE IF Len(array) <= chunkSize THEN << array >>
  ELSE << SubSeq(array, 1, chunkSize) >>
         \o chunkArray(SubSeq(array, chunkSize + 1, Len(array)), chunkSize)

\* sequence.split(/ /).reduce((a, b) => a?.[b], trie) || {}, as the list of
\* the keys of the object found (none when the walk leaves the trie)
SearchKeys(trie, input) ==
  LET path == split(input, " ")
  IN  IF HasPath(trie, path) THEN Keys(trie, path) ELSE << >>

(***************************************************************************)
(* Text normalisation                                                      *)
(***************************************************************************)

\* [A-Z]
IsUpperAZ(c) == c \in UpperSet

RECURSIVE ReplaceTerminatorsFrom(_, _)
\* text.replace(/([.?!])\s*(?=[A-Z])/g, '$1|'): a terminator, and the white
\* space behind it, when an upper-case letter follows
ReplaceTerminatorsFrom(s, i) ==
  IF i > Len(s) THEN << >>
  ELSE IF s[i] \in Terminators
    THEN LET j == SkipWhitespace(s, i + 1)
         IN  IF j <= Len(s) /\ IsUpperAZ(s[j])
               THEN << s[i], "|" >> \o ReplaceTerminatorsFrom(s, j)
               ELSE << s[i] >> \o ReplaceTerminatorsFrom(s, i + 1)
    ELSE << s[i] >> \o ReplaceTerminatorsFrom(s, i + 1)

\* text.replace(MATCH_TERMINATORS, '$1|').split('|')
SplitSequences(s) == split(ReplaceTerminatorsFrom(s, 1), "|")

RECURSIVE ReplaceLowerUpper(_, _)
\* text.replace(/([a-z])([A-Z])/g, '$1 $2')
ReplaceLowerUpper(s, i) ==
  IF i > Len(s) THEN << >>
  ELSE IF i < Len(s) /\ s[i] \in LowerSet /\ s[i + 1] \in UpperSet
    THEN << s[i], " ", s[i + 1] >> \o ReplaceLowerUpper(s, i + 2)
    ELSE << s[i] >> \o ReplaceLowerUpper(s, i + 1)

RECURSIVE FormatPlainText0(_, _)
\* text.replace(/\.\s+|\n|\r|\0/mg, ' ')
FormatPlainText0(s, i) ==
  IF i > Len(s) THEN << >>
  ELSE IF s[i] = "." /\ i < Len(s) /\ s[i + 1] \in Whitespace
    THEN << " " >> \o FormatPlainText0(s, SkipWhitespace(s, i + 1))
  ELSE IF s[i] \in { "\n", "\r", NUL }
    THEN << " " >> \o FormatPlainText0(s, i + 1)
    ELSE << s[i] >> \o FormatPlainText0(s, i + 1)

RECURSIVE SkipDashes(_, _)
SkipDashes(s, i) ==
  IF i > Len(s) \/ s[i] # "-" THEN i ELSE SkipDashes(s, i + 1)

RECURSIVE FormatPlainText1(_, _)
\* text.replace(/\s-+\s/mg, ' ')
FormatPlainText1(s, i) ==
  IF i > Len(s) THEN << >>
  ELSE LET j == SkipDashes(s, i + 1)
       IN  IF /\ s[i] \in Whitespace
              /\ j > i + 1
              /\ j <= Len(s)
              /\ s[j] \in Whitespace
             THEN << " " >> \o FormatPlainText1(s, j + 1)
             ELSE << s[i] >> \o FormatPlainText1(s, i + 1)

RECURSIVE FormatPlainText2(_, _)
\* text.replace(/[(c)|]\s?/mg, ' ')
FormatPlainText2(s, i) ==
  IF i > Len(s) THEN << >>
  ELSE IF s[i] \in { COPYRIGHT, "|" }
    THEN << " " >> \o FormatPlainText2(s,
           IF i < Len(s) /\ s[i + 1] \in Whitespace THEN i + 2 ELSE i + 1)
    ELSE << s[i] >> \o FormatPlainText2(s, i + 1)

\* the class of FORMAT_PLAIN_TEXT[3]: ! ( en dash ? $ and the curly quotes,
\* the ellipsis
FormatPlainText3Class == { "!", "(", ENDASH, "?", "$", RDQUO, LDQUO, ELLIPSIS }

\* a position at which ^ matches under the m flag
IsLineStart(s, i) == i = 1 \/ s[i - 1] \in { "\n", "\r" }

RECURSIVE FormatPlainText4(_, _)
\* text.replace(/\s{2,}|^\s/mg, ' ')
FormatPlainText4(s, i) ==
  IF i > Len(s) THEN << >>
  ELSE IF s[i] \in Whitespace /\ i < Len(s) /\ s[i + 1] \in Whitespace
    THEN << " " >> \o FormatPlainText4(s, SkipWhitespace(s, i))
  ELSE IF s[i] \in Whitespace /\ IsLineStart(s, i)
    THEN << " " >> \o FormatPlainText4(s, i + 1)
    ELSE << s[i] >> \o FormatPlainText4(s, i + 1)

\* Transformer: toPlainText
toPlainText(text) ==
  LET t1 == Capitalize(text)
      t2 == ReplaceLowerUpper(t1, 1)
      t3 == MapChars(t2, { "\n" }, << " " >>)
      t4 == FormatPlainText0(t3, 1)
      t5 == FormatPlainText1(t4, 1)
      t6 == FormatPlainText2(t5, 1)
      t7 == MapChars(t6, FormatPlainText3Class, << " " >>)
  IN  FormatPlainText4(t7, 1)

\* utils: tokenize
tokenize(input) ==
  split(MapChars(trim(input), TokenizePunctuation, << " " >>), " ")

(***************************************************************************)
(* Objects used as mappings: lists of << key, value >> in creation order   *)
(***************************************************************************)

EmptyObject == << >>

HasKey(obj, key) == \E i \in DOMAIN obj : obj[i][1] = key

\* obj[key], for a key the object has
Get(obj, key) == obj[CHOOSE i \in DOMAIN obj : obj[i][1] = key][2]

\* obj[key] = value: an existing key keeps its place, a new one goes last
Put(obj, key, value) ==
  IF HasKey(obj, key)
    THEN [i \in DOMAIN obj |-> IF obj[i][1] = key THEN << key, value >> ELSE obj[i]]
    ELSE Append(obj, << key, value >>)

\* the keys in creation order
CreatedKeys(obj) == [i \in DOMAIN obj |-> obj[i][1]]

(***************************************************************************)
(* Bounds of the model                                                     *)
(***************************************************************************)

\* The length of a completion and the breadth of a ranked list: 240 and 50
\* by default in the Transformer (read from the environment), 240 and 10 in
\* the Decoder; scaled down here so that the truncation happens.
MAX_RESPONSE_LENGTH         == 3
RANKING_BATCH_SIZE          == 2
Decoder_MAX_RESPONSE_LENGTH == 3
Decoder_RANKING_BATCH_SIZE  == 2

\* The number of n-grams merged at a time (50000 by default)
PARAMETER_CHUNK_SIZE == 2

(***************************************************************************)
(* utils: combineDocuments                                                 *)
(***************************************************************************)

RECURSIVE combineDocumentsFrom(_, _, _)
combineDocumentsFrom(library, documents, i) ==
  IF i > Len(documents) THEN << >>
  ELSE << "\n" >> \o trim(library[documents[i]])
         \o combineDocumentsFrom(library, documents, i + 1)

\* text += "\n" + source.trim(), for each document in turn
combineDocuments(library, documents) == combineDocumentsFrom(library, documents, 1)

(***************************************************************************)
(* components/Decoder                                                      *)
(***************************************************************************)

\* the count of (token, nextToken) in a frequency table, 0 when it has none
Count(table, token, nextToken) ==
  IF HasKey(table, token) /\ HasKey(Get(table, token), nextToken)
    THEN Get(Get(table, token), nextToken)
    ELSE 0

\* embedding[token][nextToken]-- (a faulty variant of Increment)
Increment_down(n) == n - 1

\* embedding[token][nextToken]++
Increment(n) == n + 1

\* One turn of the tokens.map callback of train
Decoder_trainStep(embedding, tokens, index) ==
  LET token == tokens[index]
  IN  IF HasCharIn(token, MATCH_PUNCTUATION) THEN embedding
      ELSE IF \E k \in DOMAIN token : token[k] \notin AlphaNumeric THEN embedding
      ELSE IF index = Len(tokens) \/ ~Truthy(tokens[index + 1]) THEN embedding
      ELSE IF tokens[index + 1][1] \in UpperSet THEN embedding
      ELSE LET nextToken == MapChars(tokens[index + 1], MATCH_PUNCTUATION, << >>)
               old       == IF HasKey(embedding, token) THEN Get(embedding, token)
                            ELSE EmptyObject
               \* { ...embedding[token], [nextToken]: 0 } when the count is falsy
               seeded    == IF HasKey(old, nextToken) /\ Get(old, nextToken) # 0
                              THEN old
                              ELSE Put(old, nextToken, 0)
           IN  Put(embedding, token,
                   Put(seeded, nextToken, Increment(Get(seeded, nextToken))))

RECURSIVE Decoder_trainFrom(_, _, _)
Decoder_trainFrom(embedding, tokens, index) ==
  IF index > Len(tokens) THEN embedding
  ELSE LET next == Decoder_trainStep(embedding, tokens, index)
       IN  IF next = embedding THEN Decoder_trainFrom(embedding, tokens, index + 1)
           ELSE Decoder_trainFrom(next, tokens, index + 1)

\* train, from the split of the text to the end of tokens.map: the table
\* the instance holds when the call reaches fs.writeFile
Decoder_rank(embedding, trainingText) ==
  Decoder_trainFrom(embedding, split(trainingText, " "), 1)

\* createEmbedding: the token sequences of the training text
Decoder_sequences(trainingText) ==
  LET parts == SplitSequences(trainingText)
  IN  [i \in DOMAIN parts |-> Capitalize(parts[i])]

\* createEmbedding: model = merge(...sequenceEmbeddings)
Decoder_createModel(trainingTokenSequences) ==
  LET sequenceEmbeddings ==
        [i \in DOMAIN trainingTokenSequences |->
           ngramOf(split(MapChars(trainingTokenSequences[i], { "\n" }, << >>), " "))]
  IN  merge(Head(sequenceEmbeddings), Tail(sequenceEmbeddings))

\* lookup
lookup(model, sequence) == SearchKeys(model, sequence)

RECURSIVE RemoveBackslashN(_, _)
\* s.replace(/\\n/g, by): a backslash followed by the letter n
RemoveBackslashN(s, by) ==
  IF s = << >> THEN << >>
  ELSE IF Len(s) >= 2 /\ s[1] = "\\" /\ s[2] = "n"
    THEN by \o RemoveBackslashN(SubSeq(s, 3, Len(s)), by)
    ELSE << Head(s) >> \o RemoveBackslashN(Tail(s), by)

\* Names every plain object ({} or the result of JSON.parse) inherits from
\* Object.prototype, among them: obj[name] is then a function, which is
\* truthy and has no enumerable property.  (The other inherited names are
\* no token of the documents or the queries below.)
ObjectPrototypeKeys ==
  { << "c", "o", "n", "s", "t", "r", "u", "c", "t", "o", "r" >>,
    << "t", "o", "S", "t", "r", "i", "n", "g" >>,
    << "v", "a", "l", "u", "e", "O", "f" >> }

\* The call does not return: it throws
\* "TypeError: Cannot read properties of undefined (reading '0')"
TypeError == [ thrown |-> "TypeError" ]

\* getSingleTokenPrediction.  embedding[token] is truthy for a key of the
\* table and for an inherited name; with no enumerable key in it,
\* rankedTokens[0] is undefined and highest[0] throws.
getSingleTokenPrediction(embedding, token) ==
  LET tokens       == IF HasKey(embedding, token) THEN Get(embedding, token)
                      ELSE EmptyObject
      Heavier(a, b) == Get(tokens, a) > Get(tokens, b)
      \* rankedTokens.sort((a, b) => a[1] - b[1])
      rankedTokens == StableSort(OwnKeys(CreatedKeys(tokens)), Heavier)
  IN  IF /\ HasKey(embedding, token) \/ token \in ObjectPrototypeKeys
         /\ rankedTokens = << >>
        THEN TypeError
      ELSE IF rankedTokens # << >> /\ Truthy(rankedTokens[1])
        THEN [ token           |-> rankedTokens[1],
               rankedTokenList |-> SliceLast(rankedTokens, Decoder_RANKING_BATCH_SIZE),
               error           |-> NoError ]
        ELSE [ token           |-> Null,
               rankedTokenList |-> << >>,
               error           |-> MISSING_EMBEDDING_ERROR ]

\* Number(c) of one character is a number (and not NaN)
IsNumericChar(c) == c \in DigitSet \/ c \in Whitespace
NumberOfChar(c)  == IF c \in DigitSet THEN DigitValue(c) ELSE 0

\* (a, b) => a[1] - b[1] on two strings is positive: both second characters
\* are numeric and the first is the greater (NaN sorts as 0)
SecondCharGreater(a, b) ==
  /\ Len(a) >= 2 /\ Len(b) >= 2
  /\ IsNumericChar(a[2]) /\ IsNumericChar(b[2])
  /\ NumberOfChar(a[2]) > NumberOfChar(b[2])

\* Decoder: getTokenPrediction
Decoder_getTokenPrediction(model, embedding, token) ==
  LET rankedTokens == StableSort(lookup(model, Capitalize(token)), SecondCharGreater)
      single       == getSingleTokenPrediction(embedding, token)
  IN  IF rankedTokens # << >> /\ Truthy(rankedTokens[1])
        THEN [ token           |-> rankedTokens[1],
               rankedTokenList |-> SliceLast(rankedTokens, Decoder_RANKING_BATCH_SIZE),
               error           |-> NoError ]
      ELSE IF single = TypeError THEN TypeError
      ELSE IF Truthy(single.token)
        THEN [ token           |-> trim(RemoveBackslashN(single.token, << >>)),
               rankedTokenList |-> single.rankedTokenList,
               error           |-> NoError ]
        ELSE [ token           |-> Null,
               rankedTokenList |-> << >>,
               error           |-> MISSING_EMBEDDING_ERROR ]

\* the sequence as it is, with its repetitions (a faulty variant of Dedupe)
Dedupe_none(sequence) == sequence

\* [...new Set(sequence)]: the first occurrence of each element, in order
Dedupe(sequence) ==
  LET IsFirst(i) == \A j \in 1..(i - 1) : sequence[j] # sequence[i]
      kept[k \in 0..Len(sequence)] ==
        IF k = 0 THEN << >>
        ELSE IF IsFirst(k) THEN Append(kept[k - 1], sequence[k]) ELSE kept[k - 1]
  IN  kept[Len(sequence)]

RECURSIVE Decoder_predictLoop(_, _, _, _, _, _)
\* the for loop of getTokenSequencePrediction from turn i on: the sequence
\* it leaves behind, the turns it has made when it ends and whether a turn
\* threw
Decoder_predictLoop(model, embedding, result, sequence, i, sequenceLength) ==
  IF i >= sequenceLength
    THEN [ sequence |-> sequence, turns |-> i, thrown |-> FALSE ]
  ELSE LET predicted  == Decoder_getTokenPrediction(model, embedding, result)
           prediction == predicted.token
           sanitizedPrediction == trim(RemoveBackslashN(prediction, << >>))
       IN  IF predicted = TypeError
             THEN [ sequence |-> sequence, turns |-> i, thrown |-> TRUE ]
           ELSE IF Truthy(prediction)
             THEN Decoder_predictLoop(model, embedding,
                                      result \o << " " >> \o sanitizedPrediction,
                                      Append(sequence, sanitizedPrediction),
                                      i + 1, sequenceLength)
             ELSE Decoder_predictLoop(model, embedding, result, sequence,
                                      i + 1, sequenceLength)

\* Decoder: getTokenSequencePrediction
Decoder_getTokenSequencePrediction(model, embedding, token, sequenceLength) ==
  LET keyPrediction  == Decoder_getTokenPrediction(model, embedding, token)
      keyPredictions == keyPrediction.rankedTokenList
      loop     == Decoder_predictLoop(model, embedding, token, << >>, 0, sequenceLength)
      sequence == loop.sequence
  IN  IF keyPrediction = TypeError THEN TypeError
      ELSE IF loop.thrown THEN TypeError
      ELSE
      [ completion      |-> trim(join(Dedupe(sequence), " ")),
        sequenceLength  |-> sequenceLength,
        token           |-> IF sequence = << >> THEN Undefined ELSE sequence[1],
        rankedTokenList |-> keyPredictions ]

\* Decoder: getCompletions
Decoder_getCompletions(model, embedding, input) ==
  LET first == Decoder_getTokenSequencePrediction(model, embedding, input,
                                                  Decoder_MAX_RESPONSE_LENGTH)
      Expansion(predictedToken) ==
        Decoder_getTokenSequencePrediction(model, embedding,
          input \o << " " >> \o predictedToken, Decoder_MAX_RESPONSE_LENGTH)
      Alternative(predictedToken) ==
        predictedToken \o << " " >> \o Expansion(predictedToken).completion
  IN  IF first = TypeError THEN TypeError
      ELSE IF \E k \in DOMAIN first.rankedTokenList :
                Expansion(first.rankedTokenList[k]) = TypeError THEN TypeError
      ELSE
      [ completion      |-> first.completion,
        token           |-> first.token,
        rankedTokenList |-> first.rankedTokenList,
        completions     |-> << first.completion >> \o
                              [k \in DOMAIN first.rankedTokenList |->
                                 Alternative(first.rankedTokenList[k])] ]

(***************************************************************************)
(* utils: the alphabet, the parts of speech and the suffixes               *)
(***************************************************************************)

\* alphabet.split('')
alphabet ==
  <<
     "A", "B", "C", "D", "E", "F", "G", "H", "I", "J", "K", "L", "M", "N",
     "O", "P", "Q", "R", "S", "T", "U", "V", "W", "X", "Y", "Z", "a", "b",
     "c", "d", "e", "f", "g", "h", "i", "j", "k", "l", "m", "n", "o", "p",
     "q", "r", "s", "t", "u", "v", "w", "x", "y", "z", "0", "1", "2", "3",
     "4", "5", "6", "7", "8", "9", "#", "$", "%", "&"
  >>

partsOfSpeech ==
  <<
     "CC", "CD", "DT", "EX", "FW", "IN", "JJ", "JJR", "JJS", "LS", "MD",
     "NN", "NNS", "NNP", "NNPS", "PDT", "POS", "PRP", "PRP$", "RB", "RBR",
     "RBS", "RP", "SYM", "TO", "UH", "VB", "VBD", "VBG", "VBN", "VBP",
     "VBZ", "WDT", "WP", "WP$", "WRB"
  >>

suffixes ==
  <<
     << "a", "c", "k" >>, << "a", "i", "l" >>, << "a", "i", "n" >>,
     << "a", "k", "e" >>, << "a", "l", "e" >>, << "a", "m", "e" >>,
     << "a", "n" >>, << "a", "n", "k" >>, << "a", "p" >>,
     << "a", "r", "e" >>, << "a", "s", "h" >>, << "a", "t" >>,
     << "a", "t", "e" >>, << "a", "w" >>, << "a", "y" >>,
     << "e", "a", "t" >>, << "e", "l", "l" >>, << "e", "s", "t" >>,
     << "i", "c", "e" >>, << "i", "c", "k" >>, << "i", "d", "e" >>,
     << "i", "g", "h", "t" >>, << "i", "l", "l" >>, << "i", "n" >>,
     << "i", "n", "e" >>, << "i", "n", "g" >>, << "i", "n", "k" >>,
     << "i", "p" >>, << "i", "t" >>, << "o", "c", "k" >>,
     << "o", "k", "e" >>, << "o", "p" >>, << "o", "r", "e" >>,
     << "o", "t" >>, << "u", "g" >>, << "u", "m", "p" >>,
     << "u", "n", "k" >>
  >>

\* The text of the regular expression train matches the next token against
\* to tell a stop word: /i|me|my|...|now/.toString()
StopWordSource ==
  <<
     "/", "i", "|", "m", "e", "|", "m", "y", "|", "m", "y", "s", "e", "l",
     "f", "|", "w", "e", "|", "o", "u", "r", "|", "o", "u", "r", "s", "|",
     "o", "u", "r", "s", "e", "l", "v", "e", "s", "|", "y", "o", "u", "|",
     "y", "o", "u", "r", "|", "y", "o", "u", "r", "s", "|", "y", "o", "u",
     "r", "s", "e", "l", "f", "|", "y", "o", "u", "r", "s", "e", "l", "v",
     "e", "s", "|", "h", "e", "|", "h", "i", "m", "|", "h", "i", "s", "|",
     "h", "i", "m", "s", "e", "l", "f", "|", "s", "h", "e", "|", "h", "e",
     "r", "|", "h", "e", "r", "s", "|", "h", "e", "r", "s", "e", "l", "f",
     "|", "i", "t", "|", "i", "t", "s", "|", "i", "t", "s", "e", "l", "f",
     "|", "t", "h", "e", "y", "|", "t", "h", "e", "m", "|", "t", "h", "e",
     "i", "r", "|", "t", "h", "e", "i", "r", "s", "|", "t", "h", "e", "m",
     "s", "e", "l", "v", "e", "s", "|", "w", "h", "a", "t", "|", "w", "h",
     "i", "c", "h", "|", "w", "h", "o", "|", "w", "h", "o", "m", "|", "t",
     "h", "i", "s", "|", "t", "h", "a", "t", "|", "t", "h", "e", "s", "e",
     "|", "t", "h", "o", "s", "e", "|", "a", "m", "|", "i", "s", "|", "a",
     "r", "e", "|", "w", "a", "s", "|", "w", "e", "r", "e", "|", "b", "e",
     "|", "b", "e", "e", "n", "|", "b", "e", "i", "n", "g", "|", "h", "a",
     "v", "e", "|", "h", "a", "s", "|", "h", "a", "d", "|", "h", "a", "v",
     "i", "n", "g", "|", "d", "o", "|", "d", "o", "e", "s", "|", "d", "i",
     "d", "|", "d", "o", "i", "n", "g", "|", "a", "|", "a", "n", "|", "t",
     "h", "e", "|", "a", "n", "d", "|", "b", "u", "t", "|", "i", "f", "|",
     "o", "r", "|", "b", "e", "c", "a", "u", "s", "e", "|", "a", "s", "|",
     "u", "n", "t", "i", "l", "|", "w", "h", "i", "l", "e", "|", "o", "f",
     "|", "a", "t", "|", "b", "y", "|", "f", "o", "r", "|", "w", "i", "t",
     "h", "|", "a", "b", "o", "u", "t", "|", "a", "g", "a", "i", "n", "s",
     "t", "|", "b", "e", "t", "w", "e", "e", "n", "|", "i", "n", "t", "o",
     "|", "t", "h", "r", "o", "u", "g", "h", "|", "d", "u", "r", "i", "n",
     "g", "|", "b", "e", "f", "o", "r", "e", "|", "a", "f", "t", "e", "r",
     "|", "a", "b", "o", "v", "e", "|", "b", "e", "l", "o", "w", "|", "t",
     "o", "|", "f", "r", "o", "m", "|", "u", "p", "|", "d", "o", "w", "n",
     "|", "i", "n", "|", "o", "u", "t", "|", "o", "n", "|", "o", "f", "f",
     "|", "o", "v", "e", "r", "|", "u", "n", "d", "e", "r", "|", "a", "g",
     "a", "i", "n", "|", "f", "u", "r", "t", "h", "e", "r", "|", "t", "h",
     "e", "n", "|", "o", "n", "c", "e", "|", "h", "e", "r", "e", "|", "t",
     "h", "e", "r", "e", "|", "w", "h", "e", "n", "|", "w", "h", "e", "r",
     "e", "|", "w", "h", "y", "|", "h", "o", "w", "|", "a", "l", "l", "|",
     "a", "n", "y", "|", "b", "o", "t", "h", "|", "e", "a", "c", "h", "|",
     "f", "e", "w", "|", "m", "o", "r", "e", "|", "m", "o", "s", "t", "|",
     "o", "t", "h", "e", "r", "|", "s", "o", "m", "e", "|", "s", "u", "c",
     "h", "|", "n", "o", "|", "n", "o", "r", "|", "n", "o", "t", "|", "o",
     "n", "l", "y", "|", "o", "w", "n", "|", "s", "a", "m", "e", "|", "s",
     "o", "|", "t", "h", "a", "n", "|", "t", "o", "o", "|", "v", "e", "r",
     "y", "|", "s", "|", "t", "|", "c", "a", "n", "|", "w", "i", "l", "l",
     "|", "j", "u", "s", "t", "|", "d", "o", "n", "|", "s", "h", "o", "u",
     "l", "d", "|", "n", "o", "w", "/"
  >>

\* The words of the regular expressions of the pirate and Victorian styles
PirateWords ==
  <<
     << "a", "h", "o", "y" >>, << "a", "r", "r", "r" >>,
     << "m", "a", "t", "e", "y" >>, << "b", "l", "i", "m", "e", "y" >>,
     << "s", "c", "a", "l", "l", "y", "w", "a", "g" >>
  >>

VictorianWords ==
  <<
     << "a", "b", "e", "y", "a", "n", "c", "e" >>, << "a", "d", "o" >>,
     << "b", "l", "u", "n", "d", "e", "r", "b", "u", "s", "s" >>,
     << "c", "a", "r", "r", "i", "a", "g", "e" >>,
     << "c", "h", "a", "m", "b", "r", "e" >>,
     << "c", "o", "r", "s", "e", "t" >>, << "d", "a", "n", "d", "y" >>,
     << "d", "o", "t", "e" >>, << "d", "o", "t", "h" >>,
     << "e", "s", "q", "u", "i", "r", "e" >>,
     << "f", "u", "t", "i", "l", "e" >>, << "g", "r", "a", "n", "d" >>,
     << "h", "a", "t", "h" >>, << "h", "e", "n", "c", "e" >>,
     << "l", "i", "v", "e", "l", "y" >>,
     << "n", "o", "n", "e", "s", "u", "c", "h" >>,
     << "t", "h", "e", "e" >>, << "t", "h", "o", "u" >>,
     << "t", "h", "y" >>,
     << "v", "e", "s", "t", "i", "b", "u", "l", "e" >>,
     << "w", "o", "n", "d", "e", "r", "f", "u", "l" >>
  >>

(***************************************************************************)
(* Numbers: the components of a vector are fractions << n, d >> in lowest  *)
(* terms (the source computes them in floating point)                      *)
(***************************************************************************)

RECURSIVE GCD(_, _)
GCD(a, b) == IF b = 0 THEN a ELSE GCD(b, a % b)

Frac(n, d) == LET g == GCD(n, d) IN << n \div g, d \div g >>

Zero == Frac(0, 1)
One  == Frac(1, 1)

Times(a, b) == Frac(a[1] * b[1], a[2] * b[2])
Plus(a, b)  == Frac(a[1] * b[2] + b[1] * a[2], a[2] * b[2])
Less(a, b)  == a[1] * b[2] < b[1] * a[2]

(***************************************************************************)
(* components/Vector: a vector of DIMENSIONS numbers, written as the       *)
(* function from its non-zero slots (counted from 0) to their values       *)
(***************************************************************************)

\* Vector.fromNull(): every slot is 0
fromNull == [slot \in {} |-> Zero]

Slot(vector, slot) == IF slot \in DOMAIN vector THEN vector[slot] ELSE Zero

\* Every slot of assigned written over vector
Overlay(vector, assigned) ==
  LET At(slot) == IF slot \in DOMAIN assigned THEN assigned[slot] ELSE vector[slot]
  IN  [slot \in { t \in DOMAIN vector \cup DOMAIN assigned : At(t) # Zero } |-> At(slot)]

RECURSIVE SumProducts(_, _, _)
SumProducts(vectorA, vectorB, slots) ==
  IF slots = {} THEN Zero
  ELSE LET i == CHOOSE i \in slots : \A j \in slots : i <= j
       IN  Plus(Times(vectorA[i], vectorB[i]),
                SumProducts(vectorA, vectorB, slots \ {i}))

\* dotProduct
dotProduct(vectorA, vectorB) ==
  SumProducts(vectorA, vectorB, DOMAIN vectorA \cap DOMAIN vectorB)

(***************************************************************************)
(* models/Transformer: train                                               *)
(***************************************************************************)

\* needle occurs in hay: hay.match(new RegExp(needle)) for a needle without
\* special characters
Contains(hay, needle) ==
  \E i \in 1..(Len(hay) - Len(needle) + 1) :
     SubSeq(hay, i, i + Len(needle) - 1) = needle

EndsWith(s, suffix) ==
  Len(s) >= Len(suffix) /\ SubSeq(s, Len(s) - Len(suffix) + 1, Len(s)) = suffix

CountChar(s, c) == Cardinality({ i \in DOMAIN s : s[i] = c })

CountToken(tokens, token) == Cardinality({ i \in DOMAIN tokens : tokens[i] = token })

\* wink-pos-tagger, a black box: the tag of a word. Every word gets a tag.
getPartsOfSpeech(word) == << [ pos |-> "NN" ] >>

\* tag.pos.match('NN')
NounTags == { "NN", "NNS", "NNP", "NNPS" }

posIndexStart               == Len(alphabet)
prevalenceIndexStart        == posIndexStart + Len(partsOfSpeech)
suffixesIndexStart          == prevalenceIndexStart + 1
nextWordFrequencyIndexStart == suffixesIndexStart + Len(suffixes)
vulgarIndexStart            == nextWordFrequencyIndexStart + 1

isStopWord(nextToken) == Contains(StopWordSource, nextToken)

\* /word|word|.../.test(new RegExp(token + "|" + nextToken)): the regular
\* expression is tested as the text "/token|nextToken/"
MatchesStyle(words, token, nextToken) ==
  \E k \in DOMAIN words :
     Contains(<< "/" >> \o token \o << "|" >> \o nextToken \o << "/" >>, words[k])

\* The slots one turn of the loop of train assigns for (token, nextToken),
\* the frequency slot aside
Metrics(tokens, token, nextToken) ==
  LET letterSlots == { k - 1 : k \in { k \in DOMAIN alphabet :
                                         CountChar(nextToken, alphabet[k]) > 0 } }
      suffixSlots == { suffixesIndexStart + k - 1 : k \in DOMAIN suffixes }
      tag         == Head(getPartsOfSpeech(nextToken))
      \* posIndexStart + Object.keys(<a number>) is posIndexStart + [], the
      \* string of posIndexStart: one slot whatever the tag
      posSlot     == posIndexStart
      isPirate    == \/ MatchesStyle(PirateWords, token, nextToken)
                     \/ (token = << "m", "e" >> /\ tag.pos \in NounTags)
      isVictorian == MatchesStyle(VictorianWords, token, nextToken)
      Value(slot) ==
        IF slot \in letterSlots
          THEN Frac(CountChar(nextToken, alphabet[slot + 1]), Len(nextToken))
        ELSE IF slot = posSlot THEN One
        ELSE IF slot = prevalenceIndexStart
          THEN Frac(CountToken(tokens, nextToken), Len(tokens))
        ELSE IF slot \in suffixSlots
          THEN (IF EndsWith(nextToken, suffixes[slot - suffixesIndexStart + 1])
                  THEN One ELSE Zero)
        ELSE IF slot = vulgarIndexStart THEN Zero
        ELSE IF slot = vulgarIndexStart + 1 THEN (IF isPirate THEN One ELSE Zero)
        ELSE (IF isVictorian THEN One ELSE Zero)
  IN  [slot \in letterSlots \cup suffixSlots
                  \cup { posSlot, prevalenceIndexStart, vulgarIndexStart,
                         vulgarIndexStart + 1, vulgarIndexStart + 2 }
         |-> Value(slot)]

\* embeddings[token][nextToken], or Vector.fromNull() for a new pair
VectorOf(embeddings, token, nextToken) ==
  IF HasKey(embeddings, token) /\ HasKey(Get(embeddings, token), nextToken)
    THEN Get(Get(embeddings, token), nextToken)
    ELSE fromNull

\* embeddings[token][nextToken] = vector, creating what is missing
PutVector(embeddings, token, nextToken, vector) ==
  Put(embeddings, token,
      Put(IF HasKey(embeddings, token) THEN Get(embeddings, token) ELSE EmptyObject,
          nextToken, vector))

\* One turn of the loop "2. Analyze" of train, on the state
\* [embeddings, maxNextWordFrequency]
analyzeStep(state, tokens, index) ==
  LET token == tokens[index]
  IN  IF ~Truthy(token) THEN state
      ELSE IF HasCharIn(token, MATCH_PUNCTUATION) THEN state
      ELSE IF \E k \in DOMAIN token : token[k] \notin AlphaNumeric THEN state
      ELSE IF index = Len(tokens) \/ ~Truthy(tokens[index + 1]) THEN state
      ELSE LET nextToken == tokens[index + 1]
               vector    == Overlay(VectorOf(state.embeddings, token, nextToken),
                                    Metrics(tokens, token, nextToken))
               \* ++embeddings[token][nextToken][nextWordFrequencyIndexStart]
               nextWordFrequency ==
                 Plus(Slot(vector, nextWordFrequencyIndexStart), One)
               counted   == Overlay(vector,
                              [slot \in { nextWordFrequencyIndexStart }
                                 |-> nextWordFrequency])
           IN  [ embeddings |->
                   PutVector(state.embeddings, token, nextToken, counted),
                 maxNextWordFrequency |->
                   IF /\ ~isStopWord(nextToken)
                      /\ Less(state.maxNextWordFrequency, nextWordFrequency)
                     THEN nextWordFrequency
                     ELSE state.maxNextWordFrequency ]

RECURSIVE analyzeFrom(_, _, _)
\* (the comparison has TLC compute a turn before it enters the next one)
analyzeFrom(state, tokens, index) ==
  IF index > Len(tokens) THEN state
  ELSE LET next == analyzeStep(state, tokens, index)
       IN  IF next = state THEN analyzeFrom(state, tokens, index + 1)
           ELSE analyzeFrom(next, tokens, index + 1)

\* Math.min(1, value / maxNextWordFrequency); a division by 0 gives Infinity
normalizedValue(value, maxNextWordFrequency) ==
  IF maxNextWordFrequency = Zero THEN One
  ELSE LET quotient == Frac(value[1] * maxNextWordFrequency[2],
                            value[2] * maxNextWordFrequency[1])
       IN  IF Less(One, quotient) THEN One ELSE quotient

\* One turn of the loop "3. Normalize" of train
normalizeStep(embeddings, maxNextWordFrequency, tokens, tokenIndex) ==
  LET computedToken == tokens[tokenIndex]
      nextComputedToken ==
        IF tokenIndex < Len(tokens) THEN tokens[tokenIndex + 1] ELSE Undefined
      vector == VectorOf(embeddings, computedToken, nextComputedToken)
      value  == Slot(vector, nextWordFrequencyIndexStart)
  IN  IF value # Zero
        THEN PutVector(embeddings, computedToken, nextComputedToken,
               Overlay(vector,
                 [slot \in { nextWordFrequencyIndexStart }
                    |-> normalizedValue(value, maxNextWordFrequency)]))
        ELSE embeddings

RECURSIVE normalizeFrom(_, _, _, _)
normalizeFrom(embeddings, maxNextWordFrequency, tokens, tokenIndex) ==
  IF tokenIndex > Len(tokens) THEN embeddings
  ELSE LET next == normalizeStep(embeddings, maxNextWordFrequency, tokens, tokenIndex)
       IN  IF next = embeddings
             THEN normalizeFrom(embeddings, maxNextWordFrequency, tokens, tokenIndex + 1)
             ELSE normalizeFrom(next, maxNextWordFrequency, tokens, tokenIndex + 1)

\* train, from tokenize to the end of "3. Normalize": the embeddings the
\* call holds when it reaches fs.writeFile
trainEmbeddings(trainingText) ==
  LET tokens   == tokenize(trainingText)
      analyzed == analyzeFrom([ embeddings |-> EmptyObject,
                                maxNextWordFrequency |-> Zero ], tokens, 1)
  IN  normalizeFrom(analyzed.embeddings, analyzed.maxNextWordFrequency, tokens, 1)

(***************************************************************************)
(* models/Transformer: the context and the predictions                     *)
(***************************************************************************)

\* createContext: Context.sequences
sequencesOf(trainingText) ==
  LET parts == SplitSequences(MapChars(trainingText, { "\n" }, << " " >>))
  IN  [i \in DOMAIN parts |-> toPlainText(parts[i])]

RECURSIVE mergeChunks(_, _)
\* for (const ngram of ngramMap) Context.trie = merge(Context.trie, ...ngram)
mergeChunks(trie, ngramMap) ==
  IF ngramMap = << >> THEN trie
  ELSE mergeChunks(merge(trie, Head(ngramMap)), Tail(ngramMap))

\* createContext: Context.trie
createTrie(trie, sequences) ==
  LET ngrams == [i \in DOMAIN sequences |-> ngramOf(split(sequences[i], " "))]
  IN  mergeChunks(trie, chunkArray(ngrams, PARAMETER_CHUNK_SIZE))

\* ngramSearch
ngramSearch(trie, input) == SearchKeys(trie, input)

\* embeddingSearch
embeddingSearch(embeddings, prevToken, token) ==
  LET words  == tokenize(prevToken \o << " " >> \o token)
      second == words[Len(words)]
      first  == IF Len(words) >= 2 THEN words[Len(words) - 1] ELSE Undefined
  IN  IF ~Truthy(first) \/ ~HasKey(embeddings, first) THEN fromNull
      ELSE VectorOf(embeddings, first, second)

\* getSimilarToken: the entries of Context.embeddings, entry by entry
AllEntries(embeddings) ==
  LET outer == OwnKeys(CreatedKeys(embeddings))
      Inner(entry) ==
        LET tokens == OwnKeys(CreatedKeys(Get(embeddings, entry)))
        IN  [k \in DOMAIN tokens |->
               [ token |-> tokens[k], embedding |-> Get(Get(embeddings, entry), tokens[k]) ]]
      all[k \in 0..Len(outer)] ==
        IF k = 0 THEN << >> ELSE all[k - 1] \o Inner(outer[k])
  IN  all[Len(outer)]

\* getSimilarToken: result, with the similarity of each entry
Similarities(embeddings, prevToken, token) ==
  LET tokenEmbedding == embeddingSearch(embeddings, prevToken, token)
      entries        == AllEntries(embeddings)
  IN  [k \in DOMAIN entries |->
         [ token      |-> entries[k].token,
           similarity |-> dotProduct(tokenEmbedding, entries[k].embedding) ]]

\* result.sort((a, b) => b.similarity - a.similarity)
SortBySimilarity(result) ==
  LET Behind(a, b) == Less(a.similarity, b.similarity)
  IN  StableSort(result, Behind)

\* getSimilarToken
getSimilarToken(embeddings, prevToken, token) ==
  LET ranked == SliceLast(SortBySimilarity(Similarities(embeddings, prevToken, token)),
                          RANKING_BATCH_SIZE)
      tokensOf(list) == [k \in DOMAIN list |-> list[k].token]
      resultOf(rankedTokenList) ==
        [ token |-> IF rankedTokenList = << >> THEN Undefined
                    ELSE rankedTokenList[Len(rankedTokenList)],
          rankedTokenList |-> rankedTokenList ]
  IN  resultOf(tokensOf(ranked))

\* getTokenPrediction
getTokenPrediction(trie, embeddings, variance, token) ==
  LET predictionOf(rankedTokens, highestRankedToken, similar) ==
        IF ~Truthy(token)
          THEN [ token |-> << >>, rankedTokenList |-> << >>, error |-> NoError ]
        ELSE IF Truthy(highestRankedToken)
          THEN IF variance > 0 /\ Truthy(similar.token)
                 THEN [ token           |-> similar.token,
                        rankedTokenList |-> similar.rankedTokenList,
                        error           |-> NoError ]
                 ELSE [ token           |-> highestRankedToken,
                        rankedTokenList |-> SliceLast(rankedTokens, RANKING_BATCH_SIZE),
                        error           |-> NoError ]
          ELSE [ token           |-> << >>,
                 rankedTokenList |-> << >>,
                 error           |-> MISSING_NGRAM_ERROR ]
      highestOf(rankedTokens, highestRankedToken) ==
        predictionOf(rankedTokens, highestRankedToken,
                     getSimilarToken(embeddings, token, highestRankedToken))
      rankedOf(rankedTokens) ==
        highestOf(rankedTokens,
                  IF rankedTokens = << >> THEN Undefined
                  ELSE rankedTokens[Len(rankedTokens)])
  IN  rankedOf(ngramSearch(trie, Capitalize(token)))

RECURSIVE predictLoop_inclusive(_, _, _, _, _, _, _)
\* the loop with the test i <= sequenceLength (a faulty variant of
\* predictLoop)
predictLoop_inclusive(trie, embeddings, variance, result, sequence, i, sequenceLength) ==
  IF i > sequenceLength THEN [ sequence |-> sequence, turns |-> i ]
  ELSE LET prediction == getTokenPrediction(trie, embeddings, variance, result).token
           sanitizedPrediction == trim(RemoveBackslashN(prediction, << " " >>))
       IN  IF Truthy(prediction)
             THEN predictLoop_inclusive(trie, embeddings, variance,
                                        result \o << " " >> \o sanitizedPrediction,
                                        Append(sequence, sanitizedPrediction),
                                        i + 1, sequenceLength)
             ELSE predictLoop_inclusive(trie, embeddings, variance, result, sequence,
                                        i + 1, sequenceLength)

RECURSIVE predictLoop(_, _, _, _, _, _, _)
\* the for loop of getTokenSequencePrediction from turn i on: the sequence
\* it leaves behind and the turns it has made when it ends
predictLoop(trie, embeddings, variance, result, sequence, i, sequenceLength) ==
  IF i >= sequenceLength THEN [ sequence |-> sequence, turns |-> i ]
  ELSE LET prediction == getTokenPrediction(trie, embeddings, variance, result).token
           sanitizedPrediction == trim(RemoveBackslashN(prediction, << " " >>))
       IN  IF Truthy(prediction)
             THEN predictLoop(trie, embeddings, variance,
                              result \o << " " >> \o sanitizedPrediction,
                              Append(sequence, sanitizedPrediction),
                              i + 1, sequenceLength)
             ELSE predictLoop(trie, embeddings, variance, result, sequence,
                              i + 1, sequenceLength)

\* getTokenSequencePrediction
getTokenSequencePrediction(trie, embeddings, variance, input, sequenceLength) ==
  LET keyPredictions ==
        getTokenPrediction(trie, embeddings, variance, input).rankedTokenList
      sequence ==
        predictLoop(trie, embeddings, variance, input, << >>, 0, sequenceLength).sequence
  IN  [ completion      |-> trim(join(Dedupe(sequence), " ")),
        sequenceLength  |-> sequenceLength,
        token           |-> IF sequence = << >> THEN Undefined ELSE sequence[1],
        rankedTokenList |-> keyPredictions ]

\* getCompletions
getCompletions(trie, embeddings, variance, input) ==
  LET first == getTokenSequencePrediction(trie, embeddings, variance, input,
                                          MAX_RESPONSE_LENGTH)
      Alternative(predictedToken) ==
        predictedToken \o << " " >> \o
          getTokenSequencePrediction(trie, embeddings, variance,
            input \o << " " >> \o predictedToken, MAX_RESPONSE_LENGTH).completion
  IN  [ completion      |-> first.completion,
        token           |-> first.token,
        rankedTokenList |-> first.rankedTokenList,
        completions     |-> << first.completion >> \o
                              [k \in DOMAIN first.rankedTokenList |->
                                 Alternative(first.rankedTokenList[k])] ]

(***************************************************************************)
(* The training documents, the texts handed to ingest and the queries      *)
(***************************************************************************)

SP  == << " " >>
DOT == << "." >>
The == << "T", "h", "e" >>
cat == << "c", "a", "t" >>
dog == << "d", "o", "g" >>
pig == << "p", "i", "g" >>
sat == << "s", "a", "t" >>
ran == << "r", "a", "n" >>
ate == << "a", "t", "e" >>
zzzzz == << "z", "z", "z", "z", "z" >>
constructor == << "c", "o", "n", "s", "t", "r", "u", "c", "t", "o", "r" >>

\* training/documents/<name>.txt
Library ==
  [ cats |-> \* "The cat sat. The cat ran."
      The \o SP \o cat \o SP \o sat \o DOT \o SP \o The \o SP \o cat \o SP \o ran \o DOT,
    dogs |-> \* "The cat ate. The dog ran. The dog sat.", and the newline that ends the file
      The \o SP \o cat \o SP \o ate \o DOT \o SP \o The \o SP \o dog \o SP \o ran \o DOT
        \o SP \o The \o SP \o dog \o SP \o sat \o DOT \o << "\n" >> ]

\* the files of a dataset
Datasets == { << "cats" >>, << "cats", "dogs" >> }

\* the text handed to ingest:
\* "the dog ran and ran away. The cat ran. The cat sat. The pig ate."
IngestTexts ==
  { << "t", "h", "e" >> \o SP \o dog \o SP \o ran \o SP \o << "a", "n", "d" >>
      \o SP \o ran \o SP \o << "a", "w", "a", "y" >> \o DOT \o SP
      \o The \o SP \o cat \o SP \o ran \o DOT \o SP
      \o The \o SP \o cat \o SP \o sat \o DOT \o SP
      \o The \o SP \o pig \o SP \o ate \o DOT }

\* the inputs of the queries
Queries ==
  { << >>, The, << "t", "h", "e" >>, cat, zzzzz, constructor,
    The \o SP \o cat, The \o SP \o dog }

\* The model instances one process creates, the train calls in flight at a
\* time and the calls of train, ingest and createContext made in all
NumInstances == 2
MaxCalls     == 2
MaxOps       == 3

Instances == 1..NumInstances
CallIds   == 1..MaxCalls

\* embeddings handed to createContext / createEmbedding: none, and the
\* artifact an earlier training of the two documents wrote
\* the embeddings train computes from each dataset
TrainedEmbeddings ==
  [files \in Datasets |-> trainEmbeddings(combineDocuments(Library, files))]

LoadedEmbeddings == { EmptyObject, TrainedEmbeddings[<< "cats", "dogs" >>] }

Decoder_LoadedEmbeddings ==
  { EmptyObject,
    Decoder_rank(EmptyObject, combineDocuments(Library, << "cats", "dogs" >>)) }

(***************************************************************************)
(* The state                                                               *)
(***************************************************************************)

VARIABLES
  lib,            \* the generation the process runs: "Transformer" or "Decoder"
  VARIANCE,       \* Transformer: process.env.VARIANCE
  Context,        \* Transformer: the module-level Context object
  trainingText,   \* per instance: the closure variable trainingText
  trainingTokens, \* Decoder, per instance: trainingTokens
  trainingTokenSequences, \* Decoder, per instance
  embedding,      \* Decoder, per instance: the frequency table
  model,          \* Decoder, per instance: the trie ({} stands for undefined)
  calls,          \* the train calls in flight
  ops,            \* the number of calls of train, ingest and createContext made
  normalized,     \* toPlainText applied to a text: the passes made and their results
  embedded,       \* toVecs or the analysis of train applied: the input and the vectors
  before,         \* the trie and the store read when the train call in flight was made
  applied         \* another function of the library applied: its inputs and its result

vars == << lib, VARIANCE, Context, trainingText, trainingTokens,
           trainingTokenSequences, embedding, model, calls, ops, normalized,
           embedded, before, applied >>

\* the state of the library, without the applications of its pure functions
modelVars == << lib, VARIANCE, Context, trainingText, trainingTokens,
                trainingTokenSequences, embedding, model, calls, ops >>
pureVars  == << normalized, embedded, before, applied >>
\* without the variable a caller of the Transformer keeps its own state in
workVars  == << normalized, embedded, before >>

transformerVars == << Context >>
decoderVars     == << trainingTokens, trainingTokenSequences, embedding, model >>

IdleCall == [ pc |-> "idle", inst |-> 0, files |-> << >>, embeddings |-> EmptyObject ]

\* no text has been handed to toPlainText
NotNormalized == [ text |-> << >>, previous |-> << >>, passes |-> 0 ]

\* nothing has been handed to toVecs or to the analysis of train
NotEmbedded == [ op |-> "none", bigrams |-> EmptyObject, sequence |-> << >>,
                 files |-> << >>, vectors |-> << >> ]

\* no other function has been applied
NotApplied == [ op |-> "none" ]

\* the library after require() and the construction of the instances
ModelInit ==
  /\ lib \in { "Transformer", "Decoder" }
  /\ VARIANCE \in (IF lib = "Transformer" THEN { 0, 1 } ELSE { 0 })
  /\ Context = [ trie |-> EmptyTrie, embeddings |-> EmptyObject,
                 tokens |-> << >>, sequences |-> << >>,
                 trainingTokens |-> << >> ]
  /\ trainingText = [i \in Instances |-> << >>]
  /\ trainingTokens = [i \in Instances |-> << >>]
  /\ trainingTokenSequences = [i \in Instances |-> << >>]
  /\ embedding = [i \in Instances |-> EmptyObject]
  /\ model = [i \in Instances |-> EmptyTrie]
  /\ calls = [c \in CallIds |-> IdleCall]
  /\ ops = 0

Init ==
  /\ ModelInit
  /\ normalized = NotNormalized
  /\ embedded = NotEmbedded
  /\ before = << >>
  /\ applied = NotApplied

(***************************************************************************)
(* models/Transformer: the operations                                      *)
(***************************************************************************)

\* ingest(text) that also rebuilds the trie (a faulty variant of ingest)
ingest_rebuilding(i, text) ==
  /\ lib = "Transformer"
  /\ ops < MaxOps
  /\ ops' = ops + 1
  /\ trainingText' = [trainingText EXCEPT ![i] = text]
  /\ Context' = [Context EXCEPT !.trainingTokens = split(text, " "),
                                !.sequences = sequencesOf(text),
                                !.trie = createTrie(Context.trie, sequencesOf(text))]
  /\ UNCHANGED << workVars, lib, VARIANCE, decoderVars, calls >>

\* ingest(text)
ingest(i, text) ==
  /\ lib = "Transformer"
  /\ ops < MaxOps
  /\ ops' = ops + 1
  /\ trainingText' = [trainingText EXCEPT ![i] = text]
  /\ Context' = [Context EXCEPT !.trainingTokens = split(text, " ")]
  /\ UNCHANGED << workVars, lib, VARIANCE, decoderVars, calls >>

\* The Context that createContext(embeddings) of instance i leaves
ContextAfterCreate(i, embeddings) ==
  LET sequences == sequencesOf(trainingText[i])
  IN  [Context EXCEPT !.embeddings = embeddings,
                      !.sequences  = sequences,
                      !.trie       = createTrie(Context.trie, sequences)]

\* createContext(embeddings)
createContext(i, embeddings) ==
  /\ lib = "Transformer"
  /\ ops < MaxOps
  /\ ops' = ops + 1
  /\ Context' = ContextAfterCreate(i, embeddings)
  /\ UNCHANGED << workVars, lib, VARIANCE, trainingText, decoderVars, calls >>

\* train(dataset) is called: it runs up to the await of combineDocuments
trainStart(c, i, files) ==
  /\ calls[c].pc = "idle"
  /\ \A d \in CallIds : d < c => calls[d].pc # "idle"
  /\ ops < MaxOps
  /\ calls' = [calls EXCEPT ![c] = [ pc |-> "reading", inst |-> i, files |-> files,
                                     embeddings |-> EmptyObject ]]
  /\ ops' = ops + 1
  /\ UNCHANGED << normalized, embedded, lib, VARIANCE, Context, trainingText,
                  decoderVars >>

\* combineDocuments has resolved: train runs from the assignment of
\* trainingText to the await of fs.writeFile
trainAnalyze(c) ==
  /\ lib = "Transformer"
  /\ calls[c].pc = "reading"
  /\ LET text == combineDocuments(Library, calls[c].files)
     IN  /\ trainingText' = [trainingText EXCEPT ![calls[c].inst] = text]
         /\ Context' = [Context EXCEPT !.trainingTokens = tokenize(text)]
         /\ calls' = [calls EXCEPT ![c].pc = "writing",
                                   ![c].embeddings = TrainedEmbeddings[calls[c].files]]
  /\ UNCHANGED << workVars, lib, VARIANCE, decoderVars, ops >>

\* fs.writeFile has resolved: train calls createContext(embeddings) and ends
trainFinish(c) ==
  /\ lib = "Transformer"
  /\ calls[c].pc = "writing"
  /\ Context' = ContextAfterCreate(calls[c].inst, calls[c].embeddings)
  /\ calls' = [calls EXCEPT ![c] = IdleCall]
  /\ UNCHANGED << workVars, lib, VARIANCE, trainingText, decoderVars, ops >>

\* combineDocuments rejects (fs.readFile fails, or the file has no toString):
\* train throws before it assigns anything (Decoder: the same)
trainReadFails(c) ==
  /\ calls[c].pc = "reading"
  /\ calls' = [calls EXCEPT ![c] = IdleCall]
  /\ UNCHANGED << pureVars, lib, VARIANCE, Context, trainingText, decoderVars, ops >>

\* fs.writeFile rejects: train throws and createContext is not called
\* (Decoder: createEmbedding is not called)
trainWriteFails(c) ==
  /\ calls[c].pc = "writing"
  /\ calls' = [calls EXCEPT ![c] = IdleCall]
  /\ UNCHANGED << pureVars, lib, VARIANCE, Context, trainingText, decoderVars, ops >>

(***************************************************************************)
(* components/Decoder: the operations                                      *)
(***************************************************************************)

\* ingest(text)
Decoder_ingest(i, text) ==
  /\ lib = "Decoder"
  /\ ops < MaxOps
  /\ ops' = ops + 1
  /\ trainingText' = [trainingText EXCEPT ![i] = text]
  /\ trainingTokens' = [trainingTokens EXCEPT ![i] = split(text, " ")]
  /\ UNCHANGED << pureVars, lib, VARIANCE, Context, trainingTokenSequences, embedding,
                  model, calls >>

\* createEmbedding(updatedEmbedding)
createEmbedding(i, updatedEmbedding) ==
  /\ lib = "Decoder"
  /\ ops < MaxOps
  /\ ops' = ops + 1
  /\ embedding' = [embedding EXCEPT ![i] = updatedEmbedding]
  /\ trainingTokenSequences' =
       [trainingTokenSequences EXCEPT ![i] = Decoder_sequences(trainingText[i])]
  /\ model' = [model EXCEPT ![i] =
                 Decoder_createModel(Decoder_sequences(trainingText[i]))]
  /\ UNCHANGED << pureVars, lib, VARIANCE, Context, trainingText, trainingTokens, calls >>

\* combineDocuments has resolved: train runs from the assignment of
\* trainingText to the await of fs.writeFile
Decoder_trainAnalyze(c) ==
  /\ lib = "Decoder"
  /\ calls[c].pc = "reading"
  /\ LET i    == calls[c].inst
         text == combineDocuments(Library, calls[c].files)
     IN  /\ trainingText' = [trainingText EXCEPT ![i] = text]
         /\ trainingTokens' = [trainingTokens EXCEPT ![i] = split(text, " ")]
         /\ embedding' = [embedding EXCEPT ![i] = Decoder_rank(embedding[i], text)]
  /\ calls' = [calls EXCEPT ![c].pc = "writing"]
  /\ UNCHANGED << pureVars, lib, VARIANCE, Context, trainingTokenSequences, model, ops >>

\* fs.writeFile has resolved: train calls createEmbedding(embedding) and ends
Decoder_trainFinish(c) ==
  /\ lib = "Decoder"
  /\ calls[c].pc = "writing"
  /\ LET i == calls[c].inst
     IN  /\ trainingTokenSequences' =
              [trainingTokenSequences EXCEPT ![i] = Decoder_sequences(trainingText[i])]
         /\ model' = [model EXCEPT ![i] =
                        Decoder_createModel(Decoder_sequences(trainingText[i]))]
  /\ calls' = [calls EXCEPT ![c] = IdleCall]
  /\ UNCHANGED << pureVars, lib, VARIANCE, Context, trainingText, trainingTokens, embedding,
                  ops >>

(***************************************************************************)
(* The specification                                                       *)
(***************************************************************************)

Next ==
  \/ \E i \in Instances, text \in IngestTexts : ingest(i, text) /\ UNCHANGED applied
  \/ \E i \in Instances, e \in LoadedEmbeddings : createContext(i, e) /\ UNCHANGED applied
  \/ \E c \in CallIds, i \in Instances, files \in Datasets :
        trainStart(c, i, files) /\ UNCHANGED << before, applied >>
  \/ \E c \in CallIds : trainAnalyze(c) /\ UNCHANGED applied
  \/ \E c \in CallIds : trainFinish(c) /\ UNCHANGED applied
  \/ \E i \in Instances, text \in IngestTexts : Decoder_ingest(i, text)
  \/ \E i \in Instances, e \in Decoder_LoadedEmbeddings : createEmbedding(i, e)
  \/ \E c \in CallIds : Decoder_trainAnalyze(c)
  \/ \E c \in CallIds : Decoder_trainFinish(c)

Spec == Init /\ [][Next]_vars

(***************************************************************************)
(* The queries, as a caller of instance i makes them.  The functions of    *)
(* models/Transformer read the one Context of the module, whichever        *)
(* instance they were returned with.                                       *)
(***************************************************************************)

Query_lookup(i, input) ==
  IF lib = "Transformer" THEN ngramSearch(Context.trie, input)
  ELSE lookup(model[i], input)

Query_getTokenPrediction(i, token) ==
  IF lib = "Transformer"
    THEN getTokenPrediction(Context.trie, Context.embeddings, VARIANCE, token)
    ELSE Decoder_getTokenPrediction(model[i], embedding[i], token)

\* (sequenceLength = 2 is the default of the parameter)
Query_getTokenSequencePrediction(i, input) ==
  IF lib = "Transformer"
    THEN getTokenSequencePrediction(Context.trie, Context.embeddings, VARIANCE, input, 2)
    ELSE Decoder_getTokenSequencePrediction(model[i], embedding[i], input, 2)

Query_getCompletions(i, input) ==
  IF lib = "Transformer"
    THEN getCompletions(Context.trie, Context.embeddings, VARIANCE, input)
    ELSE Decoder_getCompletions(model[i], embedding[i], input)

\* the trie the queries of instance i walk
TrieOf(i) == IF lib = "Transformer" THEN Context.trie ELSE model[i]

\* the token lists of sequences, as createContext / createEmbedding splits
\* them
TokensOf(sequences) ==
  IF lib = "Transformer"
    THEN [k \in DOMAIN sequences |-> split(sequences[k], " ")]
    ELSE [k \in DOMAIN sequences |->
            split(MapChars(sequences[k], { "\n" }, << >>), " ")]

\* the token sequences the last createContext / createEmbedding of instance i
\* built its trie from
SequenceTokens(i) ==
  TokensOf(IF lib = "Transformer" THEN Context.sequences
           ELSE trainingTokenSequences[i])

\* the token sequences createContext / createEmbedding makes of a text
TextTokens(text) ==
  TokensOf(IF lib = "Transformer" THEN sequencesOf(text) ELSE Decoder_sequences(text))

\* createContext / createEmbedding has run for the trie of instance i
ContextCreated(i) == SequenceTokens(i) # << >>

\* no train call is suspended
AllIdle == \A c \in CallIds : calls[c].pc = "idle"

(***************************************************************************)
(* The claims                                                              *)
(***************************************************************************)

\* the tokens that directly follow the token list path at the start of one
\* of the sequences
Followers(sequences, path) ==
  { sequences[k][Len(path) + 1] :
      k \in { k \in DOMAIN sequences :
                /\ Len(sequences[k]) > Len(path)
                /\ SubSeq(sequences[k], 1, Len(path)) = path } }

\* the non-empty prefixes of the sequences
PrefixesOf(sequences) ==
  UNION { { SubSeq(sequences[k], 1, n) : n \in 1..Len(sequences[k]) } :
            k \in DOMAIN sequences }

\* the prefixes the lookups are made with: every path of the trie, every
\* prefix of a sequence of the training text, and the inputs of the queries
LookupPaths(i) ==
  Range(TrieOf(i)) \cup PrefixesOf(SequenceTokens(i))
    \cup { split(q, " ") : q \in Queries }

\* C1: once createContext / createEmbedding has run on a training text, the
\* lookup of every prefix returns exactly the tokens that directly follow
\* that prefix in the sequences of that text, and nothing for a prefix that
\* does not occur in them.
C1_LookupIsExact ==
  \A i \in Instances :
    ContextCreated(i) =>
      \A path \in LookupPaths(i) :
        Range(Query_lookup(i, join(path, " "))) = Followers(SequenceTokens(i), path)

\* the token has no continuation in the trie and none in the embedding store
NoContinuation(i, token) ==
  /\ Query_lookup(i, Capitalize(token)) = << >>
  /\ ~HasKey(IF lib = "Transformer" THEN Context.embeddings ELSE embedding[i], token)

\* the result of a failed prediction: no token, no candidates, a message
IsErrorResult(result) ==
  /\ result # TypeError
  /\ result.token \in { Null, << >> }
  /\ result.rankedTokenList = << >>
  /\ result.error # NoError

\* C2: getTokenPrediction of a token that has no continuation in the trie
\* and none in the embedding store returns, without throwing, no token, an
\* empty rankedTokenList and a non-empty error message.
C2_MissIsReported ==
  \A i \in Instances : \A token \in Queries :
    NoContinuation(i, token) => IsErrorResult(Query_getTokenPrediction(i, token))

\* the ranking batch size of the library that runs
BatchSize ==
  IF lib = "Transformer" THEN RANKING_BATCH_SIZE ELSE Decoder_RANKING_BATCH_SIZE

\* C3: for every input getCompletions returns 1 + |rankedTokenList|
\* completions, and its rankedTokenList has at most the ranking batch size
\* of entries.
C3_CompletionsCount ==
  \A i \in Instances : \A input \in Queries :
    LET result == Query_getCompletions(i, input)
    IN  /\ result # TypeError
        /\ Len(result.completions) = 1 + Len(result.rankedTokenList)
        /\ Len(result.rankedTokenList) <= BatchSize

\* the trie of instance i holds the paths of the sequences it was last
\* built from, and no other
TrieIsExact(i) == Range(TrieOf(i)) = PrefixesOf(SequenceTokens(i))

\* the number of sequences in which token w directly follows the prefix path
Occurrences(sequences, path, w) ==
  Cardinality({ k \in DOMAIN sequences :
                  /\ Len(sequences[k]) > Len(path)
                  /\ SubSeq(sequences[k], 1, Len(path)) = path
                  /\ sequences[k][Len(path) + 1] = w })

\* C4: with similarity search off and a trie that has a continuation for
\* the query, getTokenPrediction returns the continuation that followed the
\* query most often in the training text.
C4_MostFrequentContinuation ==
  \A i \in Instances : \A token \in Queries \ { << >> } :
    LET path   == split(Capitalize(token), " ")
        result == Query_getTokenPrediction(i, token)
    IN  ( /\ VARIANCE = 0
          /\ ContextCreated(i) /\ TrieIsExact(i)
          /\ Query_lookup(i, Capitalize(token)) # << >> )
        => \A w \in Followers(SequenceTokens(i), path) :
             Occurrences(SequenceTokens(i), path, result.token)
               >= Occurrences(SequenceTokens(i), path, w)

\* the frequency store of instance i
StoreOf(i) == IF lib = "Transformer" THEN Context.embeddings ELSE embedding[i]

\* the continuations the store of instance i holds for a token
Continuations(i, token) ==
  IF HasKey(StoreOf(i), token) THEN { e[1] : e \in Range(Get(StoreOf(i), token)) }
  ELSE {}

\* the frequency a store holds for (token, nextToken): the count of the
\* Decoder, the frequency slot of the Transformer
FrequencyIn(store, token, nextToken) ==
  IF lib = "Transformer"
    THEN Slot(VectorOf(store, token, nextToken), nextWordFrequencyIndexStart)
    ELSE Frac(Count(store, token, nextToken), 1)

StoredFrequency(i, token, nextToken) == FrequencyIn(StoreOf(i), token, nextToken)

\* the frequency store of instance i after a step
StoreAfter(i) == IF lib = "Transformer" THEN Context'.embeddings ELSE embedding'[i]

\* instance i is a new instance on which one call, train(["cats"]), has run
\* to its end
TrainedOnCatsOnly(i) ==
  /\ ops = 1 /\ AllIdle
  /\ trainingText[i] = combineDocuments(Library, << "cats" >>)

\* C5: after training on the one document "The cat sat. The cat ran." the
\* table holds for The the one continuation cat with count 2 and for cat
\* the continuations sat and ran with count 1 each, and
\* getTokenPrediction("The") returns cat.
C5_CatsTable ==
  \A i \in Instances :
    TrainedOnCatsOnly(i) =>
      /\ Continuations(i, The) = { cat }
      /\ StoredFrequency(i, The, cat) = Frac(2, 1)
      /\ Continuations(i, cat) = { sat, ran }
      /\ StoredFrequency(i, cat, sat) = One
      /\ StoredFrequency(i, cat, ran) = One
      /\ Query_getTokenPrediction(i, The).token = cat

\* the pairs (token, nextToken) a store holds
StoredPairs(store) ==
  UNION { { << entry[1], e[1] >> : e \in Range(entry[2]) } : entry \in Range(store) }

\* The step at which train call c on corpus files replaces or updates the
\* frequencies of a store that an earlier training of the same corpus
\* filled: the tokens.map of the Decoder on an instance that holds the text
\* of the corpus, the createContext at the end of the train of the Transformer
\* on a Context that holds the embeddings of the corpus
SecondTrain(c) ==
  \/ /\ Decoder_trainAnalyze(c)
     /\ trainingText[calls[c].inst] = combineDocuments(Library, calls[c].files)
  \/ /\ trainFinish(c)
     /\ Context.embeddings = TrainedEmbeddings[calls[c].files]

\* C6: a second training of the same corpus on the same instance loses no
\* pair and decreases no frequency.
C6_SecondTrainKeepsCounts ==
  [][ \A c \in CallIds :
        SecondTrain(c) =>
          \A pair \in StoredPairs(StoreOf(calls[c].inst)) :
            /\ pair \in StoredPairs(StoreAfter(calls[c].inst))
            /\ ~Less(FrequencyIn(StoreAfter(calls[c].inst), pair[1], pair[2]),
                     FrequencyIn(StoreOf(calls[c].inst), pair[1], pair[2])) ]_vars

\* C6, its case: a new instance has been trained twice on the cats corpus
C6_Witness ==
  \E i \in Instances :
    /\ lib = "Decoder" /\ AllIdle
    /\ trainingText[i] = combineDocuments(Library, << "cats" >>)
    /\ embedding[i] = Decoder_rank(Decoder_rank(EmptyObject, trainingText[i]),
                                   trainingText[i])
    /\ Count(embedding[i], cat, sat) = 2

\* C7: with similarity search on and a trie hit, getTokenPrediction returns
\* a known token whose embedding has the greatest dot product with the
\* embedding of the continuation the trie gave.
C7_MostSimilarToken ==
  \A i \in Instances : \A token \in Queries \ { << >> } :
    LET rankedTokens == Query_lookup(i, Capitalize(token))
        similarities ==
          Similarities(Context.embeddings, token, rankedTokens[Len(rankedTokens)])
        result == Query_getTokenPrediction(i, token)
    IN  ( /\ lib = "Transformer" /\ VARIANCE > 0
          /\ rankedTokens # << >>
          /\ similarities # << >> )
        => \E k \in DOMAIN similarities :
             /\ similarities[k].token = result.token
             /\ \A j \in DOMAIN similarities :
                  ~Less(similarities[k].similarity, similarities[j].similarity)

\* what every query returns that reads the given trie and store
AnswersOf(trie, store) ==
  [input \in Queries |->
     IF lib = "Transformer"
       THEN << getTokenPrediction(trie, store, VARIANCE, input),
               getTokenSequencePrediction(trie, store, VARIANCE, input, 2),
               getCompletions(trie, store, VARIANCE, input) >>
       ELSE << Decoder_getTokenPrediction(trie, store, input),
               Decoder_getTokenSequencePrediction(trie, store, input, 2),
               Decoder_getCompletions(trie, store, input) >>]

\* what every query of instance i returns, before and after a step
Answers(i) == AnswersOf(TrieOf(i), StoreOf(i))

AnswersAfter(i) ==
  AnswersOf(IF lib = "Transformer" THEN Context'.trie ELSE model'[i], StoreAfter(i))

\* C8: ingest changes neither the trie nor the embedding store, and every
\* query returns after the call what it returned before it.
C8_IngestKeepsContext ==
  [][ (\E i \in Instances, text \in IngestTexts :
         ingest(i, text) \/ Decoder_ingest(i, text))
      => /\ Context.trie' = Context.trie
         /\ Context.embeddings' = Context.embeddings
         /\ model' = model
         /\ embedding' = embedding
         /\ \A j \in Instances : AnswersAfter(j) = Answers(j) ]_vars

\* C8, its case: a text has been ingested on an instance whose trie was
\* built from the cats corpus
C8_Witness ==
  \E i \in Instances :
    /\ trainingText[i] \in IngestTexts
    /\ SequenceTokens(i) = TextTokens(combineDocuments(Library, << "cats" >>))
    /\ TrieIsExact(i)
    /\ Query_getTokenPrediction(i, The).token = cat

\* C9: after every training cycle the trie holds exactly the paths of the
\* sequences of the corpus of that cycle, and no path of an earlier corpus.
C9_TrieIsRebuilt ==
  \A i \in Instances : ContextCreated(i) => TrieIsExact(i)

\* a step of an operation called on instance i
StepOf(i) ==
  \/ \E text \in IngestTexts : ingest(i, text) \/ Decoder_ingest(i, text)
  \/ \E e \in LoadedEmbeddings : createContext(i, e)
  \/ \E e \in Decoder_LoadedEmbeddings : createEmbedding(i, e)
  \/ \E c \in CallIds, files \in Datasets : trainStart(c, i, files)
  \/ \E c \in CallIds :
       /\ calls[c].inst = i
       /\ \/ trainAnalyze(c) \/ trainFinish(c)
          \/ Decoder_trainAnalyze(c) \/ Decoder_trainFinish(c)

\* C10: no operation on one instance changes what a query of another
\* instance returns.
C10_InstancesAreIsolated ==
  [][ \A i \in Instances :
        StepOf(i) => \A j \in Instances \ { i } : AnswersAfter(j) = Answers(j) ]_vars

\* C11: getTokenSequencePrediction and getCompletions return normally for
\* every input, and for an input with no known continuation getCompletions
\* returns an empty completion, an empty rankedTokenList and the one empty
\* completion.
C11_MissNeverAborts ==
  \A i \in Instances : \A input \in Queries :
    LET result == Query_getCompletions(i, input)
    IN  /\ Query_getTokenSequencePrediction(i, input) # TypeError
        /\ result # TypeError
        /\ NoContinuation(i, input) =>
             /\ result.completion = << >>
             /\ result.rankedTokenList = << >>
             /\ result.completions = << << >> >>

\* C12: when the trie has no entry for the query, getTokenPrediction returns
\* the continuation the frequency store holds most often for the token, and
\* the error result only when the store holds none.
C12_FallsBackToStore ==
  \A i \in Instances : \A token \in Queries \ { << >> } :
    LET result == Query_getTokenPrediction(i, token)
    IN  Query_lookup(i, Capitalize(token)) = << >> =>
          IF Continuations(i, token) # {}
            THEN /\ result # TypeError
                 /\ result.token \in Continuations(i, token)
                 /\ \A w \in Continuations(i, token) :
                      ~Less(StoredFrequency(i, token, result.token),
                            StoredFrequency(i, token, w))
            ELSE IsErrorResult(result)

\* the sequence lengths getTokenSequencePrediction is called with
MaxSequenceLength == 3
SequenceLengths == 0..MaxSequenceLength

\* the for loop of getTokenSequencePrediction(input, sequenceLength) of
\* instance i
LoopOf(i, input, sequenceLength) ==
  IF lib = "Transformer"
    THEN predictLoop(Context.trie, Context.embeddings, VARIANCE, input, << >>, 0,
                     sequenceLength)
    ELSE Decoder_predictLoop(model[i], embedding[i], input, << >>, 0, sequenceLength)

\* getTokenSequencePrediction(input, sequenceLength) of instance i
SequencePredictionOf(i, input, sequenceLength) ==
  IF lib = "Transformer"
    THEN getTokenSequencePrediction(Context.trie, Context.embeddings, VARIANCE, input,
                                    sequenceLength)
    ELSE Decoder_getTokenSequencePrediction(model[i], embedding[i], input,
                                            sequenceLength)

\* the words of a completion
WordsOf(completion) == IF completion = << >> THEN << >> ELSE split(completion, " ")

\* the place at which a token first occurs in a sequence
FirstIndex(sequence, token) ==
  CHOOSE k \in DOMAIN sequence :
    sequence[k] = token /\ \A j \in 1..(k - 1) : sequence[j] # token

\* C13: the completion of getTokenSequencePrediction holds every token the
\* loop has accumulated once, in the order of the first occurrences, joined
\* by single spaces, and nothing else.
C13_CompletionIsDeduplicated ==
  \A i \in Instances : \A input \in Queries : \A n \in SequenceLengths :
    LET result   == SequencePredictionOf(i, input, n)
        sequence == LoopOf(i, input, n).sequence
        words    == WordsOf(result.completion)
    IN  result # TypeError =>
          /\ \A a, b \in DOMAIN words : a # b => words[a] # words[b]
          /\ \A a \in DOMAIN words : words[a] # << >>
          /\ Range(words) = Range(sequence)
          /\ \A a, b \in DOMAIN words :
               a < b => FirstIndex(sequence, words[a]) < FirstIndex(sequence, words[b])

\* C13, its case: the loop has predicted a token twice and the completion
\* holds it once
C13_Witness ==
  \E i \in Instances : \E input \in Queries : \E n \in SequenceLengths :
    LET sequence == LoopOf(i, input, n).sequence
    IN  /\ SequencePredictionOf(i, input, n) # TypeError
        /\ \E a, b \in DOMAIN sequence : a < b /\ sequence[a] = sequence[b]
        /\ Len(WordsOf(SequencePredictionOf(i, input, n).completion)) < Len(sequence)

\* C14: getTokenSequencePrediction(input, n) ends after exactly n turns of
\* its loop, whatever the predictions are, and appends at most n tokens.
C14_LoopRunsExactlyN ==
  \A i \in Instances : \A input \in Queries : \A n \in SequenceLengths :
    /\ SequencePredictionOf(i, input, n) # TypeError
    /\ LoopOf(i, input, n).turns = n
    /\ Len(LoopOf(i, input, n).sequence) <= n

\* the maximum response length of the library that runs
MaxLength ==
  IF lib = "Transformer" THEN MAX_RESPONSE_LENGTH ELSE Decoder_MAX_RESPONSE_LENGTH

\* the calls of getTokenPrediction that getTokenSequencePrediction(input, n)
\* of instance i makes: one for the ranked list, one in each turn of the
\* loop, up to the call that throws
SequencePredictionCalls(i, input, n) ==
  IF Query_getTokenPrediction(i, input) = TypeError THEN 1
  ELSE 1 + LoopOf(i, input, n).turns
         + (IF lib = "Decoder" /\ LoopOf(i, input, n).thrown THEN 1 ELSE 0)

RECURSIVE ExpansionCalls(_, _, _, _)
\* the calls of getTokenPrediction the loop of getCompletions makes from the
\* k-th ranked token on, up to the expansion that throws
ExpansionCalls(i, input, rankedTokenList, k) ==
  IF k > Len(rankedTokenList) THEN 0
  ELSE LET expanded == input \o << " " >> \o rankedTokenList[k]
       IN  SequencePredictionCalls(i, expanded, MaxLength)
             + (IF SequencePredictionOf(i, expanded, MaxLength) = TypeError THEN 0
                ELSE ExpansionCalls(i, input, rankedTokenList, k + 1))

\* the calls of getTokenPrediction one call getCompletions(input) of instance
\* i makes
CompletionCalls(i, input) ==
  LET first == SequencePredictionOf(i, input, MaxLength)
  IN  SequencePredictionCalls(i, input, MaxLength)
        + (IF first = TypeError THEN 0
           ELSE ExpansionCalls(i, input, first.rankedTokenList, 1))

\* C15: one call of getCompletions makes at most
\* (1 + ranking batch size) * (1 + max response length) calls of
\* getTokenPrediction: one getTokenSequencePrediction for the input and one for
\* each ranked token, each of 1 + max response length calls.
C15_CompletionWorkIsBounded ==
  \A i \in Instances : \A input \in Queries :
    LET result == Query_getCompletions(i, input)
    IN  /\ CompletionCalls(i, input) <= (1 + BatchSize) * (1 + MaxLength)
        /\ result # TypeError =>
             CompletionCalls(i, input)
               = (1 + Len(result.rankedTokenList)) * (1 + MaxLength)

\* C15, its case: an input with as many ranked tokens as the batch holds,
\* for which the bound is met
C15_Witness ==
  \E i \in Instances : \E input \in Queries :
    /\ Query_getCompletions(i, input) # TypeError
    /\ Len(Query_getCompletions(i, input).rankedTokenList) = BatchSize
    /\ CompletionCalls(i, input) = (1 + BatchSize) * (1 + MaxLength)

(***************************************************************************)
(* toPlainText as a pure function: a text of the bounded set is handed to  *)
(* it, and its result is handed to it again                                *)
(***************************************************************************)

MaxTextLength == 4

\* the characters of the texts: a lower-case and an upper-case letter, the
\* full stop, the space, a character of FORMAT_PLAIN_TEXT[3] and the hyphen
PlainAlphabet == { "a", "B", ".", " ", "!", "-" }

PlainTexts == UNION { [1..k -> PlainAlphabet] : k \in 0..MaxTextLength }

PlainTextInit ==
  /\ ModelInit
  /\ lib = "Transformer"
  /\ normalized \in { [ text |-> t, previous |-> t, passes |-> 0 ] : t \in PlainTexts }
  /\ embedded = NotEmbedded
  /\ before = << >>
  /\ applied = NotApplied

\* toPlainText(text), text being the input or the result of the pass before
applyToPlainText ==
  /\ normalized.passes < 2
  /\ normalized' = [ text     |-> toPlainText(normalized.text),
                     previous |-> normalized.text,
                     passes   |-> normalized.passes + 1 ]
  /\ UNCHANGED << modelVars, embedded, before, applied >>

PlainTextNext == applyToPlainText

PlainTextSpec == PlainTextInit /\ [][PlainTextNext]_vars

\* C16: text normalisation is idempotent: toPlainText applied to a result of
\* toPlainText returns that result unchanged
C16_ToPlainTextIsIdempotent ==
  normalized.passes = 2 => normalized.text = normalized.previous

(***************************************************************************)
(* models/Transformer/wordToVec9: the vectors of the tokens of a sequence, *)
(* computed from a frequency table (bigrams).  A number is a fraction      *)
(* << n, d >>; NaN is << 0, 0 >>, and undefined, which every division      *)
(* here turns into NaN, is written as NaN too.                             *)
(***************************************************************************)

NaN           == << 0, 0 >>
Infinity      == << 1, 0 >>
MinusInfinity == << -1, 0 >>

Num(n) == << n, 1 >>

\* value / maximum
Quotient(value, maximum) ==
  IF value = NaN \/ maximum = NaN THEN NaN
  ELSE IF maximum[1] = 0
    THEN (IF value[1] = 0 THEN NaN
          ELSE IF value[1] > 0 THEN Infinity ELSE MinusInfinity)
  ELSE IF maximum[1] < 0
    THEN << (0 - value[1]) * maximum[2], value[2] * (0 - maximum[1]) >>
  ELSE << value[1] * maximum[2], value[2] * maximum[1] >>

\* Math.max(0, Math.min(1, quotient)): NaN stays NaN
Clamp(quotient) ==
  IF quotient = NaN THEN NaN
  ELSE IF quotient[1] <= 0 THEN Zero
  ELSE IF quotient[2] = 0 \/ quotient[1] >= quotient[2] THEN One
  ELSE Frac(quotient[1], quotient[2])

\* the list ./pos exports
posSpecificityList ==
  << "TO", "CD", "UH", "FW", "CC", "EX", "LS", "RP", "SYM", "DT", "WDT", "MD",
     "IN", "POS", "PRP", "PRP$", "RB", "RBR", "RBS", "WRB", "PDT", "JJ", "JJR",
     "JJS", "VB", "VBD", "VBG", "VBN", "VBP", "VBZ", "WP", "WP$", "NN", "NNS",
     "NNP", "NNPS" >>

\* alphabet and vowels of ./letters
letters_alphabet == LowerLetters
letters_vowels   == << "a", "e", "i", "o", "u" >>

\* indexOf: the first place of x in list, counted from 0, or -1
IndexOf(list, x) ==
  LET places == { k \in DOMAIN list : list[k] = x }
  IN  IF places = {} THEN -1
      ELSE (CHOOSE k \in places : \A j \in places : k <= j) - 1

\* the class of tokenizeSequence, /[\p{P}$+<=>^`|~]/gu
TokenizeSequencePunctuation == TokenizePunctuation \ { "\n" }

tokenizeSequence(sequence) ==
  split(MapChars(trim([k \in DOMAIN sequence |-> toLowerCase(sequence[k])]),
                 TokenizeSequencePunctuation, << >>),
        " ")

\* bigrams[token] is truthy: an own key (its value is an object), or a name
\* the plain object inherits
IsListed(bigrams, token) ==
  HasKey(bigrams, token) \/ token \in ObjectPrototypeKeys

\* values.sort((a, b) => a > b ? 1 : -1).pop(): the largest, undefined for an
\* empty list; sort moves an undefined element to the end
Largest(values) ==
  IF values = << >> \/ \E k \in DOMAIN values : values[k] = NaN THEN NaN
  ELSE values[CHOOSE k \in DOMAIN values :
                \A j \in DOMAIN values : ~Less(values[k], values[j])]

getTokenPrevalence(bigrams, token) ==
  IF HasKey(bigrams, token) THEN Num(Len(Get(bigrams, token))) ELSE Num(0)

getMaxTokenPrevalence(bigrams) ==
  Largest([k \in DOMAIN bigrams |-> getTokenPrevalence(bigrams, bigrams[k][1])])

getMaxTokenFrequency(bigrams, token) ==
  IF HasKey(bigrams, token)
    THEN LET next == Get(bigrams, token)
         IN  Largest([k \in DOMAIN next |-> Num(next[k][2])])
    ELSE Num(0)

\* bigrams[token][getMostFrequentNextToken(token)], or -1
getMostFrequentNextTokenValue(bigrams, token) ==
  IF HasKey(bigrams, token)
    THEN LET next   == Get(bigrams, token)
             Higher(a, b) == a[2] > b[2]
             sorted == StableSort(next, Higher)
         IN  IF sorted = << >> THEN NaN ELSE Num(sorted[Len(sorted)][2])
    ELSE Num(-1)

getMaxFrequency(bigrams) ==
  Largest([k \in DOMAIN bigrams |-> getMaxTokenFrequency(bigrams, bigrams[k][1])])

\* getFirstVowel: the place in string of its first vowel, 0 for none
FirstVowelPlace(string) ==
  LET places == { k \in DOMAIN string :
                    toLowerCase(string[k]) \in Range(letters_vowels) }
  IN  IF places = {} THEN 0 ELSE CHOOSE k \in places : \A j \in places : k <= j

\* alphabet.indexOf(getFirstVowel(string)): indexOf(undefined) is -1
FirstVowelIndex(string) ==
  IF FirstVowelPlace(string) = 0 THEN -1
  ELSE IndexOf(letters_alphabet, string[FirstVowelPlace(string)])

Reverse(string) == [k \in DOMAIN string |-> string[Len(string) + 1 - k]]

\* getVowels: the local list it fills is the list isVowel searches
RECURSIVE getVowelsFrom(_, _, _)
getVowelsFrom(string, k, vowels) ==
  IF k > Len(string) THEN vowels
  ELSE getVowelsFrom(string, k + 1,
         IF toLowerCase(string[k]) \in Range(vowels)
           THEN Append(vowels, string[k]) ELSE vowels)

getVowels(string) == getVowelsFrom(string, 1, << >>)

\* alphabet.indexOf(token.charAt(place - 1)); charAt gives '' off the end
LetterIndex(token, place) ==
  IF place \in DOMAIN token THEN IndexOf(letters_alphabet, token[place]) ELSE -1

\* the features of a token, before they are divided by their maximums
Features(bigrams, token) ==
  [ frequency   |-> getMostFrequentNextTokenValue(bigrams, token),
    prevalence  |-> getTokenPrevalence(bigrams, token),
    specificity |-> Num(IndexOf(posSpecificityList, "RB")),
    length      |-> Num(Len(token)),
    firstLetter |-> Num(LetterIndex(token, 1)),
    lastLetter  |-> Num(LetterIndex(token, Len(token))),
    firstVowel  |-> Num(FirstVowelIndex(token)),
    lastVowel   |-> Num(FirstVowelIndex(Reverse(token))),
    vowelCount  |-> Num(Len(getVowels(token))) ]

Maximums(bigrams) ==
  [ maxFrequency   |-> getMaxFrequency(bigrams),
    maxPrevalence  |-> getMaxTokenPrevalence(bigrams),
    maxSpecificity |-> Num(Len(posSpecificityList) - 1),
    maxLength      |-> Num(20),
    maxLetter      |-> Num(25),
    maxVowelCount  |-> Num(10) ]

Normalized(prenormalized, maximums) ==
  [index \in DOMAIN prenormalized |->
     Clamp(Quotient(prenormalized[index], maximums[index]))]

\* the vector of one token in the variant of 9 dimensions
embedding9(bigrams, token) ==
  LET f == Features(bigrams, token)
      m == Maximums(bigrams)
  IN  Normalized(
        << f.specificity, f.lastLetter, f.lastVowel, f.vowelCount, f.firstLetter,
           f.firstVowel, f.prevalence, f.frequency, f.length >>,
        << m.maxSpecificity, m.maxLetter, m.maxLetter, m.maxVowelCount, m.maxLetter,
           m.maxLetter, m.maxFrequency, m.maxPrevalence, m.maxLength >>)

\* the vector of one token in the variant of 8 dimensions
embedding8(bigrams, token) ==
  LET f == Features(bigrams, token)
      m == Maximums(bigrams)
  IN  Normalized(
        << f.frequency, f.prevalence, f.specificity, f.length, f.firstLetter,
           f.lastLetter, f.firstVowel, f.lastVowel >>,
        << m.maxFrequency, m.maxPrevalence, m.maxSpecificity, m.maxLength,
           m.maxLetter, m.maxLetter, m.maxLetter, m.maxLetter >>)

\* the tokens of the sequence that toVecs gives a vector
ListedTokens(bigrams, sequence) ==
  LET Listed(token) == IsListed(bigrams, token)
  IN  SelectSeq(tokenizeSequence(sequence), Listed)

\* toVecs, 9 dimensions: the list of the vectors
toVecs(bigrams, sequence) ==
  LET tokens == ListedTokens(bigrams, sequence)
  IN  [k \in DOMAIN tokens |-> embedding9(bigrams, tokens[k])]

\* toVecs, 8 dimensions: the object { token: vector }
RECURSIVE toVecs8From(_, _, _)
toVecs8From(bigrams, tokens, embeddings) ==
  IF tokens = << >> THEN embeddings
  ELSE toVecs8From(bigrams, Tail(tokens),
         Put(embeddings, Head(tokens), embedding8(bigrams, Head(tokens))))

toVecs8(bigrams, sequence) ==
  toVecs8From(bigrams, ListedTokens(bigrams, sequence), EmptyObject)

(***************************************************************************)
(* The embeddings as pure functions: a frequency table and a sequence are  *)
(* handed to toVecs, or the documents of a dataset to the analysis of      *)
(* train                                                                   *)
(***************************************************************************)

hmm == << "h", "m", "m" >>

\* "the cat sat and the cat ran hmm the dog"
LowerCaseText ==
  << "t", "h", "e" >> \o SP \o cat \o SP \o sat \o SP \o << "a", "n", "d" >> \o SP
    \o << "t", "h", "e" >> \o SP \o cat \o SP \o ran \o SP \o hmm \o SP
    \o << "t", "h", "e" >> \o SP \o dog

\* "the cat the cat the cat sat": one continuation of 'the', counted 3 times
RepeatedText ==
  << "t", "h", "e" >> \o SP \o cat \o SP \o << "t", "h", "e" >> \o SP \o cat \o SP
    \o << "t", "h", "e" >> \o SP \o cat \o SP \o sat

\* the tables handed to wordToVec9: the empty one, and those the Decoder
\* counts from a text
FrequencyTables ==
  { EmptyObject }
    \cup { Decoder_rank(EmptyObject, text) :
             text \in { LowerCaseText, RepeatedText,
                        combineDocuments(Library, << "cats" >>),
                        combineDocuments(Library, << "cats", "dogs" >>) }
                      \cup IngestTexts }

\* the sequences handed to toVecs
VecSequences ==
  { << >>, << "t", "h", "e" >> \o SP \o cat, hmm, constructor, zzzzz,
    The \o SP \o cat \o SP \o sat \o DOT, << "t", "h", "e" >> \o SP \o hmm,
    ran \o SP \o << "a", "w", "a", "y" >> }

EmbeddingInit ==
  /\ ModelInit
  /\ lib = "Transformer"
  /\ normalized = NotNormalized
  /\ before = << >>
  /\ applied = NotApplied
  /\ \/ \E bigrams \in FrequencyTables, sequence \in VecSequences :
          embedded = [ op |-> "none", bigrams |-> bigrams, sequence |-> sequence,
                       files |-> << >>, vectors |-> << >> ]
     \/ \E files \in Datasets :
          embedded = [ op |-> "none", bigrams |-> EmptyObject, sequence |-> << >>,
                       files |-> files, vectors |-> << >> ]

\* the token stream train analyzes for a dataset
TrainTokens(files) == tokenize(combineDocuments(Library, files))

\* wordToVec9(bigrams).toVecs(sequence), 9 dimensions
applyToVecs ==
  /\ embedded.op = "none"
  /\ embedded.files = << >>
  /\ embedded' = [embedded EXCEPT !.op = "toVecs",
                    !.vectors = toVecs(embedded.bigrams, embedded.sequence)]
  /\ UNCHANGED << modelVars, normalized, before, applied >>

\* toVecs(sequence), 8 dimensions
applyToVecs8 ==
  /\ embedded.op = "none"
  /\ embedded.files = << >>
  /\ embedded' = [embedded EXCEPT !.op = "toVecs8",
                    !.vectors = toVecs8(embedded.bigrams, embedded.sequence)]
  /\ UNCHANGED << modelVars, normalized, before, applied >>

\* train(dataset), from combineDocuments to the end of "3. Normalize"
applyTrain ==
  /\ embedded.op = "none"
  /\ embedded.files # << >>
  /\ embedded' = [embedded EXCEPT !.op = "train",
                    !.vectors = TrainedEmbeddings[embedded.files]]
  /\ UNCHANGED << modelVars, normalized, before, applied >>

\* Transformer train(dataset), from combineDocuments to the end of
\* "2. Analyze": the embeddings before they are normalized
applyAnalyze ==
  /\ embedded.op = "none"
  /\ embedded.files # << >>
  /\ embedded' = [embedded EXCEPT !.op = "analyze",
                    !.vectors =
                      analyzeFrom([ embeddings |-> EmptyObject,
                                    maxNextWordFrequency |-> Zero ],
                                  TrainTokens(embedded.files), 1).embeddings]
  /\ UNCHANGED << modelVars, normalized, before, applied >>

\* Decoder train(dataset) of a new instance, from combineDocuments to the
\* end of tokens.map
applyRank ==
  /\ embedded.op = "none"
  /\ embedded.files # << >>
  /\ embedded' = [embedded EXCEPT !.op = "rank",
                    !.vectors = Decoder_rank(EmptyObject,
                                  combineDocuments(Library, embedded.files))]
  /\ UNCHANGED << modelVars, normalized, before, applied >>

EmbeddingNext ==
  \/ applyToVecs
  \/ applyToVecs8
  \/ applyTrain
  \/ applyAnalyze
  \/ applyRank

EmbeddingSpec == EmbeddingInit /\ [][EmbeddingNext]_vars

\* the vectors produced, whatever the operation
ProducedVectors ==
  IF embedded.op = "toVecs" THEN Range(embedded.vectors)
  ELSE IF embedded.op = "toVecs8"
    THEN { embedded.vectors[k][2] : k \in DOMAIN embedded.vectors }
  ELSE IF embedded.op = "train"
    THEN UNION { { embedded.vectors[k][2][j][2] : j \in DOMAIN embedded.vectors[k][2] } :
                 k \in DOMAIN embedded.vectors }
  ELSE {}

\* the components of a vector (a vector of train is written without its zeros)
ComponentsOf(vector) == { vector[slot] : slot \in DOMAIN vector }

InUnitInterval(x) == x[2] > 0 /\ 0 <= x[1] /\ x[1] <= x[2]

\* the token of the sequence that has no vowel and is given a vector
HasNoVowel(token) == token # << >> /\ FirstVowelPlace(token) = 0

\* C17: every component of every vector produced lies in [0,1], and a token
\* without a vowel gets a vector whose vowel-position components are 0
C17_ComponentsInUnitInterval ==
  /\ \A vector \in ProducedVectors :
        \A x \in ComponentsOf(vector) : InUnitInterval(x)
  /\ embedded.op = "toVecs" =>
       LET tokens == ListedTokens(embedded.bigrams, embedded.sequence)
       IN  \A k \in DOMAIN tokens :
              HasNoVowel(tokens[k]) =>
                /\ embedded.vectors[k][3] = Zero
                /\ embedded.vectors[k][6] = Zero
  /\ embedded.op = "toVecs8" =>
       \A k \in DOMAIN embedded.vectors :
          HasNoVowel(embedded.vectors[k][1]) =>
            /\ embedded.vectors[k][2][7] = Zero
            /\ embedded.vectors[k][2][8] = Zero

(***************************************************************************)
(* What the queries of instance i read, and the documents it was built of  *)
(***************************************************************************)

\* the trie and the store the queries of instance i read
Observed(context, models, embeddings, i) ==
  IF lib = "Transformer" THEN << context.trie, context.embeddings >>
  ELSE << models[i], embeddings[i] >>

\* the sequences the trie of instance i was last built of
BuiltFrom(context, tokenSequences, i) ==
  IF lib = "Transformer" THEN context.sequences ELSE tokenSequences[i]

\* the sequences of the documents of a dataset
CycleSequences(files) ==
  IF lib = "Transformer" THEN sequencesOf(combineDocuments(Library, files))
  ELSE Decoder_sequences(combineDocuments(Library, files))

Suspended == { "reading", "writing" }

\* a step of train call c that leaves the call at an await
SuspendsAt(c) == calls'[c] # calls[c] /\ calls'[c].pc \in Suspended

\* the step of train call c that ends the call while another train call of
\* the same model stays at an await
CompletesBeside(c) ==
  /\ calls[c].pc = "writing"
  /\ calls'[c].pc = "idle"
  /\ \E d \in CallIds \ { c } :
        calls'[d].pc \in Suspended /\ calls'[d].inst = calls[c].inst

\* C18: the Context is never seen half-updated: a step of a train call that
\* leaves the call suspended at an await changes neither the trie nor the
\* store the queries of its model read, and a call that ends while another
\* call of the model is suspended installs, with its store, a trie built of
\* its own documents
C18_ContextNeverHalfUpdated ==
  [][ \A c \in CallIds :
        /\ SuspendsAt(c) =>
             Observed(Context', model', embedding', calls'[c].inst)
               = Observed(Context, model, embedding, calls'[c].inst)
        /\ CompletesBeside(c) =>
             BuiltFrom(Context', trainingTokenSequences', calls[c].inst)
               = CycleSequences(calls[c].files) ]_vars

(***************************************************************************)
(* Training with I/O failures: a caller that awaits each call of train     *)
(* before it makes the next call, and whose reads and writes may fail      *)
(***************************************************************************)

FailureNext ==
  \/ \E i \in Instances, text \in IngestTexts :
        AllIdle /\ ingest(i, text) /\ UNCHANGED applied
  \/ \E i \in Instances, e \in LoadedEmbeddings :
        AllIdle /\ createContext(i, e) /\ UNCHANGED applied
  \/ \E c \in CallIds, i \in Instances, files \in Datasets :
        /\ AllIdle
        /\ trainStart(c, i, files)
        /\ before' = Observed(Context, model, embedding, i)
        /\ UNCHANGED applied
  \/ \E c \in CallIds : trainAnalyze(c) /\ UNCHANGED applied
  \/ \E c \in CallIds : trainFinish(c) /\ UNCHANGED applied
  \/ \E c \in CallIds : trainReadFails(c)
  \/ \E c \in CallIds : trainWriteFails(c)
  \/ \E i \in Instances, text \in IngestTexts : AllIdle /\ Decoder_ingest(i, text)
  \/ \E i \in Instances, e \in Decoder_LoadedEmbeddings : AllIdle /\ createEmbedding(i, e)
  \/ \E c \in CallIds : Decoder_trainAnalyze(c)
  \/ \E c \in CallIds : Decoder_trainFinish(c)

FailureSpec == Init /\ [][FailureNext]_vars

\* train call c fails at one of its awaits
FailsAt(c) == trainReadFails(c) \/ trainWriteFails(c)

\* C19: a train call that fails at reading a document or at writing the
\* artifact leaves the trie and the store the queries of its model read
\* exactly as they were before the call
C19_FailedTrainChangesNothing ==
  [][ \A c \in CallIds :
        FailsAt(c) =>
          Observed(Context', model', embedding', calls[c].inst) = before ]_vars

\* the number of positions at which nextToken directly follows token
PairCount(tokens, token, nextToken) ==
  Cardinality({ k \in 1..(Len(tokens) - 1) :
                  tokens[k] = token /\ tokens[k + 1] = nextToken })

\* the largest count of a pair the embeddings record
MaxPairCount(tokens, embeddings) ==
  LET counts == { PairCount(tokens, pair[1], pair[2]) : pair \in StoredPairs(embeddings) }
  IN  CHOOSE m \in counts : \A n \in counts : n <= m

\* C20: after train, the frequency slot of every pair (token, nextToken) the
\* embeddings record is min(1, c / M), c being the number of positions at
\* which nextToken follows token and M the largest such count of the corpus
C20_FrequencyIsCountOverMaximum ==
  embedded.op = "train" =>
    LET tokens == TrainTokens(embedded.files)
        M      == MaxPairCount(tokens, embedded.vectors)
    IN  \A pair \in StoredPairs(embedded.vectors) :
           LET c == PairCount(tokens, pair[1], pair[2])
           IN  Slot(VectorOf(embedded.vectors, pair[1], pair[2]),
                    nextWordFrequencyIndexStart)
                 = (IF c >= M THEN One ELSE Frac(c, M))

\* the number of distinct continuations of token in the table
DistinctContinuations(bigrams, token) ==
  IF HasKey(bigrams, token) THEN Len(Get(bigrams, token)) ELSE 0

\* the highest count of a continuation of token in the table
HighestCount(bigrams, token) ==
  IF HasKey(bigrams, token) /\ Get(bigrams, token) # EmptyObject
    THEN LET counts == { e[2] : e \in Range(Get(bigrams, token)) }
         IN  CHOOSE m \in counts : \A n \in counts : n <= m
    ELSE 0

\* the largest value of Measure over the tokens of the table, 0 for none
MaximumOver(bigrams, Measure(_, _)) ==
  LET values == { Measure(bigrams, entry[1]) : entry \in Range(bigrams) } \cup { 0 }
  IN  CHOOSE m \in values : \A n \in values : n <= m

\* value / maximum clamped to [0,1]; 0 when the table is empty
Share(value, maximum) ==
  IF maximum = 0 \/ value <= 0 THEN Zero
  ELSE IF value >= maximum THEN One
  ELSE Frac(value, maximum)

ExpectedPrevalence(bigrams, token) ==
  Share(DistinctContinuations(bigrams, token),
        MaximumOver(bigrams, DistinctContinuations))

ExpectedFrequency(bigrams, token) ==
  Share(HighestCount(bigrams, token), MaximumOver(bigrams, HighestCount))

\* C21: in every vector toVecs produces, the prevalence component is the
\* number of distinct continuations of the token over the largest such
\* number of the table, and the frequency component is the highest
\* continuation count of the token over the largest count of the table,
\* both clamped to [0,1], in the variants of 8 and of 9 dimensions
C21_PrevalenceAndFrequency ==
  /\ embedded.op = "toVecs" =>
       LET tokens == ListedTokens(embedded.bigrams, embedded.sequence)
       IN  \A k \in DOMAIN tokens :
              /\ embedded.vectors[k][7] = ExpectedPrevalence(embedded.bigrams, tokens[k])
              /\ embedded.vectors[k][8] = ExpectedFrequency(embedded.bigrams, tokens[k])
  /\ embedded.op = "toVecs8" =>
       \A k \in DOMAIN embedded.vectors :
          LET token == embedded.vectors[k][1]
          IN  /\ embedded.vectors[k][2][1] = ExpectedFrequency(embedded.bigrams, token)
              /\ embedded.vectors[k][2][2] = ExpectedPrevalence(embedded.bigrams, token)

\* token[i] contains only alphanumeric characters
IsAlphaNumeric(token) == \A k \in DOMAIN token : token[k] \in AlphaNumeric

\* the number of positions i with tokens[i] = a and tokens[i + 1] = b, over
\* the positions where tokens[i] is alphanumeric and tokens[i + 1] exists
ExpectedCount(tokens, a, b) ==
  IF Truthy(a) /\ IsAlphaNumeric(a) /\ Truthy(b) THEN PairCount(tokens, a, b) ELSE 0

\* the tokens of the stream and the keys of the table
TokensAndKeys(tokens, table) ==
  Range(tokens) \cup { entry[1] : entry \in Range(table) }
    \cup UNION { { e[1] : e \in Range(entry[2]) } : entry \in Range(table) }

\* C22: after one training pass the count stored for (a, b) is the number of
\* positions at which b follows a, over the positions where a is
\* alphanumeric and b exists, and no key of the table holds another character
C22_CountsArePairPositions ==
  /\ embedded.op = "rank" =>
       LET tokens == split(combineDocuments(Library, embedded.files), " ")
           words  == TokensAndKeys(tokens, embedded.vectors)
       IN  /\ \A a \in words, b \in words :
                Count(embedded.vectors, a, b) = ExpectedCount(tokens, a, b)
           /\ \A entry \in Range(embedded.vectors) : IsAlphaNumeric(entry[1])
  /\ embedded.op = "analyze" =>
       LET tokens == TrainTokens(embedded.files)
           words  == TokensAndKeys(tokens, embedded.vectors)
       IN  /\ \A a \in words, b \in words :
                Slot(VectorOf(embedded.vectors, a, b), nextWordFrequencyIndexStart)
                  = Frac(ExpectedCount(tokens, a, b), 1)
           /\ \A entry \in Range(embedded.vectors) : IsAlphaNumeric(entry[1])

(***************************************************************************)
(* createContext: the merge of the n-grams                                 *)
(***************************************************************************)

MaxSequences == 3
MaxChunkSize == 3

\* Context.sequences of the texts of the model
SequencePool ==
  UNION { Range(sequencesOf(text)) :
            text \in IngestTexts \cup { combineDocuments(Library, files) : files \in Datasets } }

\* the orders in which n sequences can be handed to merge
Orders(n) == { f \in [1..n -> 1..n] : \A i, j \in 1..n : f[i] = f[j] => i = j }

\* Context.sequences.map(sequence => ...): the n-grams of createContext
ngramsOf(sequences) == [i \in DOMAIN sequences |-> ngramOf(split(sequences[i], " "))]

MergeInit ==
  /\ ModelInit
  /\ lib = "Transformer"
  /\ normalized = NotNormalized
  /\ embedded = NotEmbedded
  /\ before = << >>
  /\ \E n \in 1..MaxSequences :
       \E sequences \in [1..n -> SequencePool], order \in Orders(n),
          chunkSize \in 1..MaxChunkSize :
         applied = [ op |-> "none", sequences |-> sequences, order |-> order,
                     chunkSize |-> chunkSize, trie |-> EmptyTrie ]

\* createContext, lines 329-359, with PARAMETER_CHUNK_SIZE = chunkSize and
\* the sequences in the given order
applyMerge ==
  /\ applied.op = "none"
  /\ LET ngrams == ngramsOf([i \in DOMAIN applied.sequences |->
                               applied.sequences[applied.order[i]]])
     IN  applied' = [applied EXCEPT !.op = "merge",
                       !.trie = mergeChunks(EmptyTrie,
                                            chunkArray(ngrams, applied.chunkSize))]
  /\ UNCHANGED << modelVars, normalized, embedded, before >>

\* Decoder createEmbedding, line 270: merge(...sequenceEmbeddings), all the
\* sequences at once
applyMergeAll ==
  /\ applied.op = "none"
  /\ applied' = [applied EXCEPT !.op = "mergeAll",
                   !.trie = merge(EmptyTrie, ngramsOf(applied.sequences))]
  /\ UNCHANGED << modelVars, normalized, embedded, before >>

MergeNext ==
  \/ applyMerge
  \/ applyMergeAll

MergeSpec == MergeInit /\ [][MergeNext]_vars

\* the nodes of a trie, whatever the order of its keys
NodesOf(trie) == Range(trie)

\* C23: whatever the chunk size and the order of the sequences, the trie
\* createContext builds has the nodes of the trie built by merging all the
\* sequences at once; with the sequences in their own order its keys are in
\* the same order too
C23_TrieIndependentOfMerging ==
  applied.op = "merge" =>
    LET all == merge(EmptyTrie, ngramsOf(applied.sequences))
    IN  /\ NodesOf(applied.trie) = NodesOf(all)
        /\ (\A i \in DOMAIN applied.order : applied.order[i] = i) => applied.trie = all

\* three sequences, two of them with the same first words, merged in another
\* order and in chunks smaller than the list
C23_Witness ==
  /\ applied.op = "merge"
  /\ Len(applied.sequences) = 3
  /\ applied.chunkSize < 3
  /\ applied.order[1] = 3
  /\ \E i, j \in 1..3 :
       /\ applied.sequences[i] # applied.sequences[j]
       /\ split(applied.sequences[i], " ")[1] = split(applied.sequences[j], " ")[1]
  /\ Len(applied.trie) > 4

\* the top-level keys of a trie
TopLevelKeys(trie) == { path[1] : path \in { p \in Range(trie) : Len(p) = 1 } }

\* a word whose first letter is in upper case
IsCapitalized(key) ==
  /\ key # << >>
  /\ key[1] \notin LowerSet
  /\ key[1] \notin Whitespace

\* C24: every top-level key createContext adds to the trie, for a text that
\* is not empty, is the first word of a sequence with its first letter in
\* upper case
C24_TopLevelKeysAreCapitalized ==
  [][ (lib = "Transformer" /\ Context'.sequences \notin { << >>, << << >> >> })
        => \A key \in TopLevelKeys(Context'.trie) \ TopLevelKeys(Context.trie) :
             IsCapitalized(key) ]_vars

(***************************************************************************)
(* getTokenPrediction: the order of rankedTokenList                        *)
(***************************************************************************)

MaxFollowers == 3

\* the tokens that follow "The" or "the" in the texts drawn below
FollowerPool ==
  { cat, dog, << "7" >>, << "3" >>, << "1", "0" >>, << "3", "5" >> }

\* the lists of distinct tokens, in the order in which the text has them
FollowerLists ==
  UNION { { f \in [1..n -> FollowerPool] : \A i, j \in 1..n : f[i] = f[j] => i = j } :
            n \in 1..MaxFollowers }

\* the sequences "The <follower>", one for each follower
FollowerSequences(followers) ==
  [i \in DOMAIN followers |-> The \o SP \o followers[i]]

\* the text "the <follower> the <follower> ..."
FollowerText(followers) ==
  join([i \in DOMAIN followers |-> << "t", "h", "e" >> \o SP \o followers[i]], " ")

RankingInit ==
  /\ ModelInit
  /\ normalized = NotNormalized
  /\ embedded = NotEmbedded
  /\ before = << >>
  /\ \E followers \in FollowerLists :
       applied = [ op |-> "none", followers |-> followers, rankedTokenList |-> << >> ]

\* Transformer: createContext on the sequences, then getTokenPrediction('The')
applyGetTokenPrediction ==
  /\ lib = "Transformer"
  /\ applied.op = "none"
  /\ applied' = [applied EXCEPT !.op = "getTokenPrediction",
                   !.rankedTokenList =
                     getTokenPrediction(
                       createTrie(EmptyTrie, FollowerSequences(applied.followers)),
                       EmptyObject, 0, The).rankedTokenList]
  /\ UNCHANGED << modelVars, normalized, embedded, before >>

\* Decoder: createEmbedding on the sequences, then getTokenPrediction('The')
applyDecoderGetTokenPrediction ==
  /\ lib = "Decoder"
  /\ applied.op = "none"
  /\ applied' = [applied EXCEPT !.op = "getTokenPrediction",
                   !.rankedTokenList =
                     Decoder_getTokenPrediction(
                       Decoder_createModel(FollowerSequences(applied.followers)),
                       EmptyObject, The).rankedTokenList]
  /\ UNCHANGED << modelVars, normalized, embedded, before >>

\* Decoder: train on the text, then getSingleTokenPrediction('the'); every
\* follower has the weight 1
applyGetSingleTokenPrediction ==
  /\ lib = "Decoder"
  /\ applied.op = "none"
  /\ applied' = [applied EXCEPT !.op = "getSingleTokenPrediction",
                   !.rankedTokenList =
                     getSingleTokenPrediction(
                       Decoder_rank(EmptyObject, FollowerText(applied.followers)),
                       << "t", "h", "e" >>).rankedTokenList]
  /\ UNCHANGED << modelVars, normalized, embedded, before >>

RankingNext ==
  \/ applyGetTokenPrediction
  \/ applyDecoderGetTokenPrediction
  \/ applyGetSingleTokenPrediction

RankingSpec == RankingInit /\ [][RankingNext]_vars

\* the place of a token in a list that holds it
PlaceIn(list, token) == CHOOSE i \in DOMAIN list : list[i] = token

\* C25: the candidates of rankedTokenList, all of the same weight, are in the
\* order in which the text has them, tokens made of digits included
C25_TiesKeepEncounterOrder ==
  applied.op \in { "getTokenPrediction", "getSingleTokenPrediction" } =>
    \A i, j \in DOMAIN applied.rankedTokenList :
      i < j => PlaceIn(applied.followers, applied.rankedTokenList[i])
                 < PlaceIn(applied.followers, applied.rankedTokenList[j])

(***************************************************************************)
(* models/Language: the creation of a language model                       *)
(***************************************************************************)

\* training/datasets/Default
DEFAULT_DATASET ==
  [ name |-> << "D", "e", "f", "a", "u", "l", "t" >>, files |-> << "cats" >> ]

\* the dataset option: a named dataset, or one without a name (or none)
DatasetOptions ==
  { [ name |-> name, files |-> files ] :
      name \in { Undefined, << "B", "o", "o", "k", "s" >> }, files \in Datasets }

\* the files option: a list of documents, or none
FilesOptions == { Undefined } \cup Datasets

\* no training data
NoTrainingData == [ given |-> FALSE, text |-> << >>, embeddings |-> EmptyObject ]

\* init: trainingData is built when the dataset has a name, and only then
\* (a faulty variant: not when bootstrap is true)
trainingDataOf_unlessBootstrap(dataset, bootstrap, embeddings) ==
  IF Truthy(dataset.name) /\ ~bootstrap
    THEN [ given |-> TRUE, text |-> combineDocuments(Library, dataset.files),
           embeddings |-> embeddings ]
    ELSE NoTrainingData

\* init: if (dataset?.name) { ... trainingData = { text, embeddings } }
trainingDataOf(dataset, bootstrap, embeddings) ==
  IF Truthy(dataset.name)
    THEN [ given |-> TRUE, text |-> combineDocuments(Library, dataset.files),
           embeddings |-> embeddings ]
    ELSE NoTrainingData

\* Language({ name, dataset, files, bootstrap }) is called
LanguageInit ==
  /\ ModelInit
  /\ lib = "Transformer"
  /\ normalized = NotNormalized
  /\ embedded = NotEmbedded
  /\ before = << >>
  /\ \E dataset \in DatasetOptions, files \in FilesOptions, bootstrap \in BOOLEAN :
       applied = [ op |-> "init", dataset |-> dataset, files |-> files,
                   bootstrap |-> bootstrap, trainingData |-> NoTrainingData,
                   made |-> << >> ]

\* init, up to the choice between fromTrainingData and fromFiles; the
\* embeddings are what fetchEmbeddings reads
init ==
  /\ applied.op = "init"
  /\ \E embeddings \in LoadedEmbeddings :
       LET trainingData == trainingDataOf(applied.dataset, applied.bootstrap, embeddings)
       IN  applied' = [applied EXCEPT
                         !.files = IF applied.bootstrap THEN DEFAULT_DATASET.files ELSE @,
                         !.trainingData = trainingData,
                         !.op = IF trainingData.given THEN "fromTrainingData"
                                ELSE "fromFiles"]
  /\ UNCHANGED << modelVars, normalized, embedded, before >>

\* fromTrainingData: textTransformer.ingest(text)
fromTrainingData_ingest ==
  /\ applied.op = "fromTrainingData"
  /\ ingest(1, applied.trainingData.text)
  /\ applied' = [applied EXCEPT !.op = "ingested",
                                !.made = Append(@, << "ingest" >>)]

\* fromTrainingData: textTransformer.createContext(embeddings)
fromTrainingData_createContext ==
  /\ applied.op = "ingested"
  /\ createContext(1, applied.trainingData.embeddings)
  /\ applied' = [applied EXCEPT !.op = "ready",
                                !.made = Append(@, << "createContext" >>)]

\* fromFiles: textTransformer.train is called, on files or on the files of
\* the default dataset
fromFiles_train ==
  /\ applied.op = "fromFiles"
  /\ LET files == IF applied.files # Undefined THEN applied.files
                  ELSE DEFAULT_DATASET.files
     IN  /\ trainStart(1, 1, files)
         /\ applied' = [applied EXCEPT !.op = "training",
                                       !.made = Append(@, << "train", files >>)]
  /\ UNCHANGED before

\* fromFiles: the train call goes on while fromFiles awaits it
fromFiles_trainAnalyze ==
  /\ applied.op = "training"
  /\ trainAnalyze(1)
  /\ UNCHANGED applied

\* fromFiles: the train call ends and the await resumes
fromFiles_trainFinish ==
  /\ applied.op = "training"
  /\ trainFinish(1)
  /\ applied' = [applied EXCEPT !.op = "ready",
                                !.made = Append(@, << "train returns" >>)]

\* the model is returned: { ...transformer, fromTrainingData, fromFiles, complete }
returnModel ==
  /\ applied.op = "ready"
  /\ applied' = [applied EXCEPT !.op = "returned"]
  /\ UNCHANGED << modelVars, normalized, embedded, before >>

LanguageNext ==
  \/ init
  \/ fromTrainingData_ingest
  \/ fromTrainingData_createContext
  \/ fromFiles_train
  \/ fromFiles_trainAnalyze
  \/ fromFiles_trainFinish
  \/ returnModel

LanguageSpec == LanguageInit /\ [][LanguageNext]_vars

\* list begins with the elements of start, or is the beginning of start
IsPrefix(list, start) ==
  /\ Len(list) <= Len(start)
  /\ \A k \in DOMAIN list : list[k] = start[k]

OverlapInit ==
  /\ ModelInit
  /\ lib = "Transformer"
  /\ normalized = NotNormalized
  /\ embedded = NotEmbedded
  /\ before = << >>
  /\ \E i \in Instances : applied = [ op |-> "train", inst |-> i, started |-> << >> ]

\* train(dataset) is called; the second call is made while the first one is
\* at an await
trainOverlapping(c, files) ==
  /\ Len(applied.started) < 2
  /\ applied.started # << >> => ~AllIdle
  /\ trainStart(c, applied.inst, files)
  /\ applied' = [applied EXCEPT !.started = Append(@, files)]
  /\ UNCHANGED before

OverlapNext ==
  \/ \E c \in CallIds, files \in Datasets : trainOverlapping(c, files)
  \/ \E c \in CallIds : trainAnalyze(c) /\ UNCHANGED applied
  \/ \E c \in CallIds : trainFinish(c) /\ UNCHANGED applied

OverlapSpec == OverlapInit /\ [][OverlapNext]_vars

\* both calls have been made and both have ended
BothCompleted == Len(applied.started) = 2 /\ AllIdle

\* C27: when two overlapping train calls of one model have both ended, the
\* trie and the store were built from the same corpus
C27_OverlappingTrainsAgree ==
  (applied.op = "train" /\ BothCompleted) =>
    \E files \in Datasets :
      /\ Context.sequences = sequencesOf(combineDocuments(Library, files))
      /\ Context.embeddings = TrainedEmbeddings[files]

\* C28: a token getTokenPrediction returns, when it is not empty, is one of
\* the tokens of the rankedTokenList returned with it
C28_TokenIsRanked ==
  \A i \in Instances, token \in Queries :
    LET prediction == Query_getTokenPrediction(i, token)
    IN  (prediction # TypeError /\ Truthy(prediction.token))
          => prediction.token \in Range(prediction.rankedTokenList)

\* the tokens the loop of getTokenSequencePrediction appends for an input,
\* similarity search off
AppendedTokens(input, sequenceLength) ==
  predictLoop(Context.trie, Context.embeddings, 0, input, << >>, 0, sequenceLength).sequence

\* C29: with similarity search off, the input followed by the tokens
\* getTokenSequencePrediction appends spells a path from the root of the trie
C29_AppendedTokensSpellPath ==
  (lib = "Transformer" /\ VARIANCE = 0) =>
    \A input \in Queries, sequenceLength \in 1..MAX_RESPONSE_LENGTH :
      AppendedTokens(input, sequenceLength) # << >>
        => HasPath(Context.trie,
                   split(input, " ") \o AppendedTokens(input, sequenceLength))

(***************************************************************************)
(* getTokenSequencePrediction, turn by turn                                *)
(***************************************************************************)

\* the inputs of the calls
LoopInputs == Queries \cup { zzzzz \o SP \o The }

\* one turn of the for loop that, when it finds no prediction, goes on with
\* the last word of result (a faulty variant of turn)
turn_backoff(trie, embeddings, variance, result, sequence) ==
  LET words == split(result, " ")
      push(prediction, sanitizedPrediction) ==
        IF Truthy(prediction)
          THEN [ result   |-> result \o << " " >> \o sanitizedPrediction,
                 sequence |-> Append(sequence, sanitizedPrediction) ]
          ELSE [ result |-> words[Len(words)], sequence |-> sequence ]
      sanitize(prediction) ==
        push(prediction, trim(RemoveBackslashN(prediction, << " " >>)))
  IN  sanitize(getTokenPrediction(trie, embeddings, variance, result).token)

\* one turn of the for loop of getTokenSequencePrediction
turn(trie, embeddings, variance, result, sequence) ==
  LET push(prediction, sanitizedPrediction) ==
        IF Truthy(prediction)
          THEN [ result   |-> result \o << " " >> \o sanitizedPrediction,
                 sequence |-> Append(sequence, sanitizedPrediction) ]
          ELSE [ result |-> result, sequence |-> sequence ]
      sanitize(prediction) ==
        push(prediction, trim(RemoveBackslashN(prediction, << " " >>)))
  IN  sanitize(getTokenPrediction(trie, embeddings, variance, result).token)

\* Decoder: one turn of the for loop of getTokenSequencePrediction, for a
\* prediction that was returned
Decoder_turn(prediction, result, sequence) ==
  LET sanitizedPrediction == trim(RemoveBackslashN(prediction, << >>))
  IN  IF Truthy(prediction)
        THEN [ result   |-> result \o << " " >> \o sanitizedPrediction,
               sequence |-> Append(sequence, sanitizedPrediction) ]
        ELSE [ result |-> result, sequence |-> sequence ]

\* getTokenSequencePrediction(input, sequenceLength) is called on model 1,
\* once it has been built: the call runs up to the for loop
callSequencePrediction(input) ==
  /\ applied.op = "none"
  /\ ops > 0
  /\ AllIdle
  /\ applied' = [ op |-> "loop", input |-> input, result |-> input,
                  sequence |-> << >>, i |-> 0,
                  sequenceLength |-> MAX_RESPONSE_LENGTH, missed |-> FALSE,
                  completion |-> << >> ]
  /\ UNCHANGED << modelVars, normalized, embedded, before >>

\* Transformer: a turn of the loop
loopTurn ==
  /\ lib = "Transformer"
  /\ applied.op = "loop"
  /\ applied.i < applied.sequenceLength
  /\ LET after(next) ==
           [applied EXCEPT !.result = next.result,
                           !.sequence = next.sequence,
                           !.i = @ + 1,
                           !.missed = @ \/ next.sequence = applied.sequence]
     IN  applied' = after(turn(Context.trie, Context.embeddings, VARIANCE,
                               applied.result, applied.sequence))
  /\ UNCHANGED << modelVars, normalized, embedded, before >>

\* Decoder: a turn of the loop; a TypeError ends the call
Decoder_loopTurn ==
  /\ lib = "Decoder"
  /\ applied.op = "loop"
  /\ applied.i < applied.sequenceLength
  /\ LET predicted == Decoder_getTokenPrediction(model[1], embedding[1], applied.result)
     IN  IF predicted = TypeError
           THEN applied' = [applied EXCEPT !.op = "thrown"]
           ELSE LET next == Decoder_turn(predicted.token, applied.result, applied.sequence)
                IN  applied' = [applied EXCEPT
                                  !.result = next.result,
                                  !.sequence = next.sequence,
                                  !.i = @ + 1,
                                  !.missed = @ \/ next.sequence = applied.sequence]
  /\ UNCHANGED << modelVars, normalized, embedded, before >>

\* the loop has ended: the duplicates are removed from the sequence and the
\* call returns
loopReturn ==
  /\ applied.op = "loop"
  /\ applied.i = applied.sequenceLength
  /\ applied' = [applied EXCEPT !.op = "returned",
                                !.completion = trim(join(Dedupe(applied.sequence), " "))]
  /\ UNCHANGED << modelVars, normalized, embedded, before >>

\* model 1 is built, by ingest and createContext or by train, and then
\* queried
LoopNext ==
  \/ \E text \in IngestTexts :
        applied.op = "none" /\ ops = 0 /\ ingest(1, text) /\ UNCHANGED applied
  \/ \E e \in LoadedEmbeddings :
        applied.op = "none" /\ ops = 1 /\ createContext(1, e) /\ UNCHANGED applied
  \/ \E files \in Datasets :
        /\ applied.op = "none" /\ ops = 0
        /\ trainStart(1, 1, files)
        /\ UNCHANGED << before, applied >>
  \/ trainAnalyze(1) /\ UNCHANGED applied
  \/ trainFinish(1) /\ UNCHANGED applied
  \/ \E text \in IngestTexts : applied.op = "none" /\ ops = 0 /\ Decoder_ingest(1, text)
  \/ \E e \in Decoder_LoadedEmbeddings :
        applied.op = "none" /\ ops = 1 /\ createEmbedding(1, e)
  \/ Decoder_trainAnalyze(1)
  \/ Decoder_trainFinish(1)
  \/ \E input \in LoopInputs : callSequencePrediction(input)
  \/ loopTurn
  \/ Decoder_loopTurn
  \/ loopReturn

LoopSpec == Init /\ [][LoopNext]_vars

\* C30: within one call of getTokenSequencePrediction, after a turn that
\* found no prediction no later turn changes result or appends a token, and
\* as long as no turn has missed every turn has appended one token
C30_NoTokenAfterMiss ==
  [][ /\ (applied.op = "loop" /\ applied.missed /\ applied'.op = "loop")
          => /\ applied'.result = applied.result
             /\ applied'.sequence = applied.sequence
      /\ (applied'.op = "loop" /\ ~applied'.missed)
          => Len(applied'.sequence) = applied'.i ]_vars

\* a call that appended a token, then missed, and has made another turn
\* after the miss
C30_Witness ==
  /\ applied.op = "loop"
  /\ applied.missed
  /\ Len(applied.sequence) >= 1
  /\ applied.i >= Len(applied.sequence) + 2

=============================================================================
